---- MODULE Spec2Model ----
(***************************************************************************)
(* Flow generator client (cmd/client/main.go): the admission loop of main  *)
(* and the flow tasks it spawns (generateFlow).                            *)
(*                                                                         *)
(* One admission loop ticks at a fixed rate.  On a tick it either stops    *)
(* generation because the flow_count limit is reached, or tries to take a  *)
(* unit of the concurrency semaphore without blocking and spawns a flow    *)
(* goroutine.  The lifetime context mainCtx is the parent of every flow    *)
(* context.  The loop leaves through the mainCtx.Done() branch, waits for  *)
(* the wait group, logs the metrics and returns.                           *)
(***************************************************************************)
EXTENDS Naturals, Integers, FiniteSets, Sequences, TLC

\* ---------------------------------------------------------------- bounds
\* largest flow_count limit that is configured
MaxFlowCount == 2
\* largest max_concurrent that is configured
MaxConcurrent == 2

\* flows that can be admitted in one run: one more than the largest limit, so
\* that a limit is never enforced by the model instead of the code
MaxFlows == MaxFlowCount + 1
\* delivered ticks are counted exactly up to MaxTicks, which stands for
\* "MaxTicks or more"
MaxTicks == MaxFlows + 1
FlowIds == 1 .. MaxFlows

Min(a, b) == IF a < b THEN a ELSE b

VARIABLES
    cfg,            \* the loaded configuration (never changes)
    mainPc,         \* position of main: "loop", "wait", "stopped", "exited"
    mainCtx,        \* state of mainCtx: "active", "canceled", "deadline"
    flowCounter,    \* flowCounter
    sem,            \* number of units held in the channel sem
    wg,             \* counter of the wait group wg
    ticksDelivered, \* ticks received from ticker.C (counted up to MaxTicks)
    tickerStopped,  \* ticker.Stop() was called
    metricsLogged,  \* number of calls of mc.LogMetrics
    exitCode,       \* exit status of the process, -1 while it runs
    flow,           \* the flow goroutines, by order of admission
    src,            \* the shared random source src and the draws made on it
    call,           \* a call of one of the program's pure functions
    timer,          \* for each flow, the ticks delivered when flowCtx was made
    metrics,        \* the counters of the metrics collector mc
    manager,        \* a server Manager and the servers it manages
    tcpServer,      \* a TCPServer, its accept loop and its handlers
    conn,           \* a TCP connection in the hands of TCPHandler.Handle
    health,         \* the health Checker and its HTTP server
    proc,           \* the echo server process: position of its main
    collector,      \* a MetricsCollector under concurrent updates
    sock            \* for each flow, its connection: "none", "open", "closed"

vars == <<cfg, mainPc, mainCtx, flowCounter, sem, wg, ticksDelivered,
          tickerStopped, metricsLogged, exitCode, flow, src, call, timer,
          metrics, manager, tcpServer, conn, health, proc, collector,
          sock>>

\* state that the scheduler runs below leave alone: they take each drawn value
\* as an arbitrary choice
aux == <<src, call, timer, metrics, manager, tcpServer, conn, health, proc,
         collector, sock>>

\* state of the echo server
\* the rest of the echo server process
hostVars == <<health, proc, collector>>

serverVars == <<manager, tcpServer, conn, hostVars>>

\* state that only the timed and the counted runs and the server look at
ext == <<timer, metrics, sock, serverVars>>

mainVars == <<mainPc, mainCtx, flowCounter, sem, wg, ticksDelivered,
              tickerStopped, metricsLogged, exitCode>>

\* ProtocolPort values of availablePorts for protocol "both"
AvailablePorts == <<"tcp", "udp">>

\* a flow goroutine that was not spawned
NoFlow == [pc |-> "none", proto |-> "none", ctxDone |-> FALSE,
           expired |-> FALSE, rcvd |-> 0]

\* positions of a flow goroutine at which flowCtx exists and is not yet released
CtxLive == {"dial", "write", "read", "hold", "udpLoop", "udpRead", "udpSleep"}

\* configurations with rate > 0 and max_concurrent > 0; the payload is one
\* byte
Configs == [maxConcurrent : 1 .. MaxConcurrent,
            flowCount     : 0 .. MaxFlowCount,
            flowTimeout   : BOOLEAN,
            payloadSize   : {1}]

\* rand.New(rand.NewPCG(0, 0)): the source is at the start of its sequence.
\* state is the number of outputs produced, local[i] the state flow i has
\* read inside a draw (-1 outside), got[i] the outputs flow i has drawn, each
\* named by its position in the sequence.
SrcInit == [state |-> 0,
            local |-> [i \in FlowIds |-> -1],
            got   |-> [i \in FlowIds |-> << >>]]

\* no pure function is being called
NoCall == [fn |-> "none"]

\* metrics.NewMetricsCollector(): every counter is zero
NoMetrics == [requestsSent |-> 0, bytesSent |-> 0, bytesReceived |-> 0]

\* the outcome of no call on the Manager
NoOp == [op |-> "none", wasRunning |-> FALSE, err |-> "nil",
         startCalled |-> {}, startFailed |-> {},
         stopCalled |-> {}, stopFailed |-> {}]

\* NewManager()
NewManager == [running |-> FALSE, canceled |-> FALSE, servers |-> << >>,
               calls |-> 0, last |-> NoOp, waiter |-> "none"]

\* NewTCPServer(port, handler)
NewTCPServer == [started |-> "no", listener |-> "nil", ctxDone |-> FALSE,
                 wg |-> 0, acceptPc |-> "none", stopPc |-> "idle",
                 backlog |-> 0, handlers |-> 0, accepted |-> 0]

\* no connection
NoConn == [pc |-> "none", toSend |-> << >>, wire |-> << >>,
           clientOpen |-> FALSE, buf |-> << >>, n |-> 0, lastRead |-> "none",
           read |-> << >>, echoed |-> << >>, writeFailed |-> FALSE,
           bytesReceived |-> 0, bytesSent |-> 0]

\* health.NewChecker(): both flags false, no HTTP server
NewChecker == [ready |-> FALSE, healthy |-> FALSE, server |-> "nil",
               http |-> "none", calls |-> 0,
               last |-> [op |-> "none", ready |-> FALSE, healthy |-> FALSE,
                         err |-> "nil", code |-> 0, body |-> ""]]

\* the echo server process before its main runs
NoProc == [pc |-> "none", flushed |-> FALSE]

\* no collector under test
NoCollector == [pc |-> "none"]

ExtInit ==
    /\ timer = [i \in FlowIds |-> 0]
    /\ metrics = NoMetrics
    /\ manager = NewManager
    /\ tcpServer = NewTCPServer
    /\ conn = NoConn
    /\ health = NewChecker
    /\ proc = NoProc
    /\ collector = NoCollector
    /\ sock = [i \in FlowIds |-> "none"]

SchedulerInit ==
    /\ mainPc = "loop"
    /\ mainCtx = "active"
    /\ flowCounter = 0
    /\ sem = 0
    /\ wg = 0
    /\ ticksDelivered = 0
    /\ tickerStopped = FALSE
    /\ metricsLogged = 0
    /\ exitCode = -1
    /\ flow = [i \in FlowIds |-> NoFlow]
    /\ src = SrcInit
    /\ ExtInit

Init ==
    /\ cfg \in Configs
    /\ call = NoCall
    /\ SchedulerInit

\* ------------------------------------------------------------- contexts
MainCtxDone == mainCtx # "active"

\* the children of a cancelled context are left running
CancelNoChildren(f) == f

\* cancelling a context cancels every context derived from it
CancelChildren(f) ==
    [i \in FlowIds |->
        IF f[i].pc \in CtxLive THEN [f[i] EXCEPT !.ctxDone = TRUE] ELSE f[i]]

\* the call of cancel() is missing
CancelMainMissing(c) == c

\* cancel() of the root context: mainCtx (the root or its timeout child) is done
CancelMain(c) == IF c = "active" THEN "canceled" ELSE c

\* ------------------------------------------------------------ semaphore
\* the send succeeds with one unit too many
SemTryAcquireOffByOne(s, cap) == s <= cap

\* case sem <- struct{}{}: the send succeeds iff the channel has room
SemTryAcquire(s, cap) == s < cap

\* the limit is compared with > in place of >=
LimitReachedOffByOne(counter, limit) == limit > 0 /\ counter > limit

\* flowCount > 0 && atomic.LoadUint64(&flowCounter) >= uint64(flowCount)
LimitReached(counter, limit) == limit > 0 /\ counter >= limit

CountTick(t) == Min(t + 1, MaxTicks)

\* ------------------------------------------------------- admission loop
\* case <-ticker.C, flow count limit reached: cancel() and continue
TickLimit ==
    /\ mainPc = "loop"
    /\ LimitReached(flowCounter, cfg.flowCount)
    /\ ticksDelivered' = CountTick(ticksDelivered)
    /\ mainCtx' = CancelMain(mainCtx)
    /\ flow' = CancelChildren(flow)
    /\ UNCHANGED <<aux, cfg, mainPc, flowCounter, sem, wg, tickerStopped,
                   metricsLogged, exitCode>>

\* the flow is not registered before its goroutine starts
WaitGroupAddLate(w) == w

\* wg.Add(1), in the admission loop, before go func()
WaitGroupAdd(w) == w + 1

\* case <-ticker.C, a semaphore unit is free: count, wg.Add(1), go func()
TickAdmit ==
    /\ mainPc = "loop"
    /\ ~LimitReached(flowCounter, cfg.flowCount)
    /\ SemTryAcquire(sem, cfg.maxConcurrent)
    /\ flowCounter < MaxFlows
    /\ ticksDelivered' = CountTick(ticksDelivered)
    /\ sem' = sem + 1
    /\ flowCounter' = flowCounter + 1
    /\ wg' = WaitGroupAdd(wg)
    /\ flow' = [flow EXCEPT ![flowCounter + 1] = [NoFlow EXCEPT !.pc = "start"]]
    /\ UNCHANGED <<aux, cfg, mainPc, mainCtx, tickerStopped, metricsLogged, exitCode>>

\* the skipped admission is queued: the flow is spawned without a unit
TickSkipQueues ==
    /\ mainPc = "loop"
    /\ ~LimitReached(flowCounter, cfg.flowCount)
    /\ ~SemTryAcquire(sem, cfg.maxConcurrent)
    /\ flowCounter < MaxFlows
    /\ ticksDelivered' = CountTick(ticksDelivered)
    /\ flowCounter' = flowCounter + 1
    /\ wg' = wg + 1
    /\ flow' = [flow EXCEPT ![flowCounter + 1] = [NoFlow EXCEPT !.pc = "start"]]
    /\ UNCHANGED <<aux, cfg, mainPc, mainCtx, sem, tickerStopped, metricsLogged,
                   exitCode>>

\* case <-ticker.C, semaphore full: default branch, the tick is skipped
TickSkip ==
    /\ mainPc = "loop"
    /\ ~LimitReached(flowCounter, cfg.flowCount)
    /\ ~SemTryAcquire(sem, cfg.maxConcurrent)
    /\ ticksDelivered' = CountTick(ticksDelivered)
    /\ UNCHANGED <<aux, cfg, mainPc, mainCtx, flowCounter, sem, wg, tickerStopped,
                   metricsLogged, exitCode, flow>>

\* case <-mainCtx.Done(): ticker.Stop(), then wg.Wait()
Drain ==
    /\ mainPc = "loop"
    /\ MainCtxDone
    /\ mainPc' = "wait"
    /\ tickerStopped' = TRUE
    /\ UNCHANGED <<aux, cfg, mainCtx, flowCounter, sem, wg, ticksDelivered,
                   metricsLogged, exitCode, flow>>

\* wg.Wait() is not called
WaitGroupSkipped(w) == TRUE

\* wg.Wait() returns when the counter is zero
WaitGroupDone(w) == w = 0

\* wg.Wait() returned: "All flows completed", mc.LogMetrics, return
Finish ==
    /\ mainPc = "wait"
    /\ WaitGroupDone(wg)
    /\ mainPc' = "stopped"
    /\ metricsLogged' = metricsLogged + 1
    /\ exitCode' = 0
    /\ UNCHANGED <<aux, cfg, mainCtx, flowCounter, sem, wg, ticksDelivered,
                   tickerStopped, flow>>

\* the deadline of context.WithTimeout(mainCtx, flowTimeout) passes
MainDeadline ==
    /\ mainPc \in {"loop", "wait"}
    /\ cfg.flowTimeout
    /\ mainCtx = "active"
    /\ mainCtx' = "deadline"
    /\ flow' = CancelChildren(flow)
    /\ UNCHANGED <<aux, cfg, mainPc, flowCounter, sem, wg, ticksDelivered,
                   tickerStopped, metricsLogged, exitCode>>

\* the signal handler exits without logging the metrics
SignalSilentExit ==
    /\ mainPc \in {"loop", "wait"}
    /\ mainPc' = "exited"
    /\ exitCode' = 0
    /\ UNCHANGED <<aux, cfg, mainCtx, flowCounter, sem, wg, ticksDelivered,
                   tickerStopped, metricsLogged, flow>>

\* signal handler goroutine: <-sigChan, mc.LogMetrics, os.Exit(0)
Signal ==
    /\ mainPc \in {"loop", "wait"}
    /\ mainPc' = "exited"
    /\ metricsLogged' = metricsLogged + 1
    /\ exitCode' = 0
    /\ UNCHANGED <<aux, cfg, mainCtx, flowCounter, sem, wg, ticksDelivered,
                   tickerStopped, flow>>

\* ------------------------------------------------------ flow goroutines
Alive == mainPc \in {"loop", "wait"}

\* go func(): pp and duration are drawn, generateFlow derives flowCtx from mainCtx
FlowStart(i) ==
    /\ Alive
    /\ flow[i].pc = "start"
    /\ \E pp \in 1 .. Len(AvailablePorts) :
        flow' = [flow EXCEPT ![i] = [@ EXCEPT !.pc = "dial",
                                              !.proto = AvailablePorts[pp],
                                              !.ctxDone = MainCtxDone]]
    /\ UNCHANGED <<aux, cfg, mainVars>>

\* the flow's own duration elapses: flowCtx times out
FlowExpire(i) ==
    /\ Alive
    /\ flow[i].pc \in CtxLive
    /\ ~flow[i].expired
    /\ flow' = [flow EXCEPT ![i] = [@ EXCEPT !.expired = TRUE, !.ctxDone = TRUE]]
    /\ UNCHANGED <<aux, cfg, mainVars>>

\* deferred conn.Close(), flowCancel(), wg.Done() of generateFlow; its locals
\* go out of scope
Returned(f) == [NoFlow EXCEPT !.pc = "returned", !.ctxDone = TRUE]

FlowReturn(i) ==
    /\ flow' = [flow EXCEPT ![i] = Returned(@)]
    /\ wg' = wg - 1
    /\ UNCHANGED <<aux, cfg, mainPc, mainCtx, flowCounter, sem, ticksDelivered,
                   tickerStopped, metricsLogged, exitCode>>

\* net.Dial / net.DialUDP succeeds
DialOk(i) ==
    /\ Alive
    /\ flow[i].pc = "dial"
    /\ flow' = [flow EXCEPT ![i] = [@ EXCEPT !.pc =
                    IF flow[i].proto = "tcp" THEN "write" ELSE "udpLoop"]]
    /\ UNCHANGED <<aux, cfg, mainVars>>

\* a dial failure is passed on to the scheduler, which stops generating
DialFailAborts(i) ==
    /\ Alive
    /\ flow[i].pc = "dial"
    /\ flow' = [CancelChildren(flow) EXCEPT ![i] = Returned(flow[i])]
    /\ wg' = wg - 1
    /\ mainCtx' = CancelMain(mainCtx)
    /\ UNCHANGED <<aux, cfg, mainPc, flowCounter, sem, ticksDelivered,
                   tickerStopped, metricsLogged, exitCode>>

\* net.Dial / net.DialUDP fails: warning, return
DialFail(i) ==
    /\ Alive
    /\ flow[i].pc = "dial"
    /\ FlowReturn(i)

\* TCP conn.Write succeeds
TcpWriteOk(i) ==
    /\ Alive
    /\ flow[i].pc = "write"
    /\ flow' = [flow EXCEPT ![i] = [@ EXCEPT !.pc = "read"]]
    /\ UNCHANGED <<aux, cfg, mainVars>>

\* TCP conn.Write fails: warning, return
TcpWriteFail(i) ==
    /\ Alive
    /\ flow[i].pc = "write"
    /\ FlowReturn(i)

\* the read loop ends one byte early
ReadLoopDoneEarly(received, size) == ~(received + 1 < size)

\* for totalReceived < payloadSize
ReadLoopDone(received, size) == ~(received < size)

\* conn.Read returns n echoed bytes
TcpReadData(i) ==
    /\ Alive
    /\ flow[i].pc = "read"
    /\ \E n \in 1 .. (cfg.payloadSize - flow[i].rcvd) :
        LET r == flow[i].rcvd + n IN
        flow' = [flow EXCEPT ![i] = [@ EXCEPT !.rcvd = r,
                    !.pc = IF ReadLoopDone(r, cfg.payloadSize) THEN "hold" ELSE "read"]]
    /\ UNCHANGED <<aux, cfg, mainVars>>

\* conn.Read returns an error (the peer closed or reset the connection): break
TcpReadErr(i) ==
    /\ Alive
    /\ flow[i].pc = "read"
    /\ flow' = [flow EXCEPT ![i] = [@ EXCEPT !.pc = "hold"]]
    /\ UNCHANGED <<aux, cfg, mainVars>>

\* <-flowCtx.Done() returns, generateFlow returns
TcpHoldEnd(i) ==
    /\ Alive
    /\ flow[i].pc = "hold"
    /\ flow[i].ctxDone
    /\ FlowReturn(i)

\* UDP loop head, time.Since(startTime) >= duration: generateFlow returns
UdpLoopEnd(i) ==
    /\ Alive
    /\ flow[i].pc = "udpLoop"
    /\ flow[i].expired
    /\ FlowReturn(i)

\* UDP loop body: conn.Write succeeds.  A payload above the MTU and a failed
\* write both continue at the loop head and change no state.
UdpWriteOk(i) ==
    /\ Alive
    /\ flow[i].pc = "udpLoop"
    /\ ~flow[i].expired
    /\ flow' = [flow EXCEPT ![i] = [@ EXCEPT !.pc = "udpRead"]]
    /\ UNCHANGED <<aux, cfg, mainVars>>

\* conn.ReadFromUDP returns a datagram, an error or the 1 s read timeout
UdpReadEnd(i) ==
    /\ Alive
    /\ flow[i].pc = "udpRead"
    /\ flow' = [flow EXCEPT ![i] = [@ EXCEPT !.pc = "udpSleep"]]
    /\ UNCHANGED <<aux, cfg, mainVars>>

\* select: case <-time.After(100 * time.Millisecond)
UdpSleepEnd(i) ==
    /\ Alive
    /\ flow[i].pc = "udpSleep"
    /\ flow' = [flow EXCEPT ![i] = [@ EXCEPT !.pc = "udpLoop"]]
    /\ UNCHANGED <<aux, cfg, mainVars>>

\* select: case <-flowCtx.Done(): return
UdpCanceled(i) ==
    /\ Alive
    /\ flow[i].pc = "udpSleep"
    /\ flow[i].ctxDone
    /\ FlowReturn(i)

\* the deferred receive is left out
SemReleaseSkipped(s) == s

\* <-sem: one unit is taken out of the channel
SemRelease(s) == s - 1

\* deferred func() { <-sem }() of the flow goroutine
FlowRelease(i) ==
    /\ Alive
    /\ flow[i].pc = "returned"
    /\ flow' = [flow EXCEPT ![i] = [@ EXCEPT !.pc = "released"]]
    /\ sem' = SemRelease(sem)
    /\ UNCHANGED <<aux, cfg, mainPc, mainCtx, flowCounter, wg, ticksDelivered,
                   tickerStopped, metricsLogged, exitCode>>

\* steps of flow goroutine i after its draws, that depend on the client and on
\* time alone
FlowBody(i) ==
    \/ FlowExpire(i)
    \/ DialOk(i)
    \/ DialFail(i)
    \/ TcpWriteOk(i)
    \/ TcpWriteFail(i)
    \/ TcpHoldEnd(i)
    \/ UdpLoopEnd(i)
    \/ UdpWriteOk(i)
    \/ UdpReadEnd(i)
    \/ UdpSleepEnd(i)
    \/ UdpCanceled(i)
    \/ FlowRelease(i)

\* steps of flow goroutine i that depend on the client and on time alone
FlowStep(i) ==
    \/ FlowStart(i)
    \/ FlowBody(i)

\* steps of flow goroutine i that the peer decides
PeerStep(i) ==
    \/ TcpReadData(i)
    \/ TcpReadErr(i)

Next ==
    \/ TickLimit
    \/ TickAdmit
    \/ TickSkip
    \/ Drain
    \/ Finish
    \/ MainDeadline
    \/ Signal
    \/ \E i \in FlowIds : FlowStep(i)
    \/ \E i \in FlowIds : PeerStep(i)

Spec == Init /\ [][Next]_vars

\* ------------------------------------------------------- specifications
\* The scheduler runs every goroutine that can take a step, timers fire, and
\* select picks each ready case eventually.  Nothing is assumed of the peer
\* or of signals.
Fairness ==
    /\ WF_vars(TickLimit \/ TickAdmit \/ TickSkip)
    /\ WF_vars(Drain)
    /\ WF_vars(Finish)
    /\ WF_vars(MainDeadline)
    /\ \A i \in FlowIds : WF_vars(FlowExpire(i))
    /\ \A i \in FlowIds : WF_vars(FlowStep(i))

FairSpec == Init /\ [][Next]_vars /\ Fairness

\* A run with a flow_count limit, no flow_timeout and no signal, against a peer
\* that answers every read (with data or by closing).
InitCount ==
    /\ Init
    /\ cfg.flowCount > 0
    /\ ~cfg.flowTimeout

NextCount ==
    \/ TickLimit
    \/ TickAdmit
    \/ TickSkip
    \/ Drain
    \/ Finish
    \/ \E i \in FlowIds : FlowStep(i)
    \/ \E i \in FlowIds : PeerStep(i)

CountSpec ==
    /\ InitCount
    /\ [][NextCount]_vars
    /\ Fairness
    /\ \A i \in FlowIds : WF_vars(PeerStep(i))

\* ---------------------------------------------- draws on the shared source
\* The goroutine of a flow draws its port (src.IntN) and its duration
\* (src.Float64) on the source shared by all flows, without a lock.  A draw
\* reads the state of the source, then writes the advanced state back and
\* returns the output computed from the state it read.
DrawNames == <<"port", "duration">>

InDraw(i) == src.local[i] # -1

\* a draw begins: the state of the source is read
DrawBegin(i) ==
    /\ Alive
    /\ flow[i].pc = "start"
    /\ ~InDraw(i)
    /\ Len(src.got[i]) < Len(DrawNames)
    /\ src' = [src EXCEPT !.local[i] = src.state]
    /\ UNCHANGED <<call, ext, cfg, mainVars, flow>>

\* a draw ends: the advanced state is written, the output is returned
DrawEnd(i) ==
    /\ Alive
    /\ flow[i].pc = "start"
    /\ InDraw(i)
    /\ src' = [src EXCEPT !.state = src.local[i] + 1,
                          !.local[i] = -1,
                          !.got[i] = Append(@, src.local[i])]
    /\ UNCHANGED <<call, ext, cfg, mainVars, flow>>

\* pp := availablePorts[src.IntN(len(availablePorts))]
PortOfDraw(out) == AvailablePorts[(out % Len(AvailablePorts)) + 1]

\* both values are drawn and passed to generateFlow, which derives flowCtx
\* from mainCtx
FlowStartDrawn(i) ==
    /\ Alive
    /\ flow[i].pc = "start"
    /\ Len(src.got[i]) = Len(DrawNames)
    /\ flow' = [flow EXCEPT ![i] = [@ EXCEPT !.pc = "dial",
                                          !.proto = PortOfDraw(src.got[i][1]),
                                          !.ctxDone = MainCtxDone]]
    /\ src' = [src EXCEPT !.got[i] = << >>]
    /\ UNCHANGED <<call, ext, cfg, mainVars>>

\* a run without flow_count limit, flow_timeout and signal, against a server
\* that refuses every connection, in which the draws of the flow goroutines
\* are steps of their own
InitDraw ==
    /\ Init
    /\ cfg.flowCount = 0
    /\ ~cfg.flowTimeout

NextDraw ==
    \/ TickAdmit
    \/ TickSkip
    \/ \E i \in FlowIds : DrawBegin(i)
    \/ \E i \in FlowIds : DrawEnd(i)
    \/ \E i \in FlowIds : FlowStartDrawn(i)
    \/ \E i \in FlowIds : DialFail(i)
    \/ \E i \in FlowIds : FlowRelease(i)

DrawSpec == InitDraw /\ [][NextDraw]_vars

\* ------------------------------------------------------ port configuration
\* A string is a sequence of one-character strings.
Digits == <<"0", "1", "2", "3", "4", "5", "6", "7", "8", "9">>

IsDigit(c) == \E d \in 1 .. Len(Digits) : Digits[d] = c

DigitValue(c) == (CHOOSE d \in 1 .. Len(Digits) : Digits[d] = c) - 1

WhiteSpace == {" ", "\t"}

RECURSIVE TrimLeft(_)
TrimLeft(s) ==
    IF s # << >> /\ Head(s) \in WhiteSpace THEN TrimLeft(Tail(s)) ELSE s

RECURSIVE TrimRight(_)
TrimRight(s) ==
    IF s # << >> /\ s[Len(s)] \in WhiteSpace
    THEN TrimRight(SubSeq(s, 1, Len(s) - 1))
    ELSE s

\* strings.TrimSpace(p)
TrimSpace(s) == TrimRight(TrimLeft(s))

\* strings.Split(portsStr, ","): the pieces between the separators, the empty
\* ones included
RECURSIVE Split(_, _)
Split(s, sep) ==
    IF \A k \in 1 .. Len(s) : s[k] # sep
    THEN <<s>>
    ELSE LET k == CHOOSE k \in 1 .. Len(s) :
                      s[k] = sep /\ \A j \in 1 .. k - 1 : s[j] # sep
         IN  <<SubSeq(s, 1, k - 1)>> \o Split(SubSeq(s, k + 1, Len(s)), sep)

RECURSIVE DecimalValue(_)
DecimalValue(ds) ==
    IF ds = << >>
    THEN 0
    ELSE 10 * DecimalValue(SubSeq(ds, 1, Len(ds) - 1)) + DigitValue(ds[Len(ds)])

\* strconv.Atoi(p): an optional sign and at least one decimal digit, nothing
\* else.  The strings of the model are short enough not to overflow an int.
Atoi(s) ==
    LET signed == s # << >> /\ Head(s) \in {"+", "-"}
        ds     == IF signed THEN Tail(s) ELSE s
    IN  IF ds = << >> \/ \E k \in 1 .. Len(ds) : ~IsDigit(ds[k])
        THEN [err |-> TRUE, n |-> 0]
        ELSE [err |-> FALSE,
              n   |-> IF signed /\ Head(s) = "-"
                      THEN 0 - DecimalValue(ds)
                      ELSE DecimalValue(ds)]

MaxPort == 65535

\* the range test with port 0 let through
PortInRangeFromZero(port) == port >= 0 /\ port <= MaxPort

\* port > 0 && port <= 65535
PortInRange(port) == port > 0 /\ port <= MaxPort

\* for _, p := range strings.Split(portsStr, ","): trim, convert, keep or warn
RECURSIVE ParseEntries(_)
ParseEntries(ps) ==
    IF ps = << >>
    THEN << >>
    ELSE LET r == Atoi(TrimSpace(Head(ps)))
         IN  (IF ~r.err /\ PortInRange(r.n) THEN <<r.n>> ELSE << >>)
                 \o ParseEntries(Tail(ps))

parsePorts(portsStr) ==
    IF portsStr = << >> THEN << >> ELSE ParseEntries(Split(portsStr, ","))

\* the list with the UDP entries first
BuildAvailablePortsUdpFirst(protocol, tcpPorts, udpPorts) ==
    (IF protocol = "udp" \/ protocol = "both"
     THEN [k \in 1 .. Len(udpPorts) |-> [Protocol |-> "udp", Port |-> udpPorts[k]]]
     ELSE << >>)
    \o
    (IF protocol = "tcp" \/ protocol = "both"
     THEN [k \in 1 .. Len(tcpPorts) |-> [Protocol |-> "tcp", Port |-> tcpPorts[k]]]
     ELSE << >>)

\* var availablePorts []ProtocolPort and the two loops that fill it
BuildAvailablePorts(protocol, tcpPorts, udpPorts) ==
    (IF protocol = "tcp" \/ protocol = "both"
     THEN [k \in 1 .. Len(tcpPorts) |-> [Protocol |-> "tcp", Port |-> tcpPorts[k]]]
     ELSE << >>)
    \o
    (IF protocol = "udp" \/ protocol = "both"
     THEN [k \in 1 .. Len(udpPorts) |-> [Protocol |-> "udp", Port |-> udpPorts[k]]]
     ELSE << >>)

\* ------------------------------------------------- inputs of the functions
\* entries per port list
MaxEntries == 3

\* evaluations of a function on the same input
MaxCalls == 2

\* Entries of a port list as they are written on the command line, each with
\* the port it stands for (0: not a port).  The texts are those of
\* TestParsePorts and the limits of the range.
PortEntries ==
    << [text |-> <<"8", "0">>,                     port |-> 80],
       [text |-> << >>,                            port |-> 0],
       [text |-> <<"0">>,                          port |-> 0],
       [text |-> <<" ", "4", "4", "3", " ">>,      port |-> 443],
       [text |-> <<"6", "5", "5", "3", "5">>,      port |-> 65535],
       [text |-> <<"6", "5", "5", "3", "6">>,      port |-> 0],
       [text |-> <<"-", "1">>,                     port |-> 0],
       [text |-> <<"x">>,                          port |-> 0],
       [text |-> <<"8", " ", "0">>,                port |-> 0],
       [text |-> <<"\t", "1">>,                    port |-> 1],
       [text |-> <<"+", "7">>,                     port |-> 7],
       [text |-> <<"0", "0", "7">>,                port |-> 7] >>

\* sequences of at most n elements of S
SeqsUpTo(S, n) == UNION {[1 .. m -> S] : m \in 0 .. n}

\* the port list string with the entries es, separated by commas
RECURSIVE JoinEntries(_)
JoinEntries(es) ==
    IF es = << >>
    THEN << >>
    ELSE IF Len(es) = 1
         THEN PortEntries[es[1]].text
         ELSE PortEntries[es[1]].text \o <<",">> \o JoinEntries(Tail(es))

\* the ports the entries es stand for, in their order
RECURSIVE PortsWritten(_)
PortsWritten(es) ==
    IF es = << >>
    THEN << >>
    ELSE (IF PortEntries[es[1]].port > 0 THEN <<PortEntries[es[1]].port>> ELSE << >>)
             \o PortsWritten(Tail(es))

\* values of --protocol: the three the client knows and one it does not
ProtocolFlags == {"tcp", "udp", "both", "none"}

\* parsed ports of a list
SamplePorts == {80, 443}

ParsePortsCalls ==
    {[fn |-> "parsePorts", in |-> [entries |-> es, portsStr |-> JoinEntries(es)],
      out |-> << >>, prev |-> << >>, calls |-> 0] :
        es \in SeqsUpTo(1 .. Len(PortEntries), MaxEntries)}

AvailablePortsCalls ==
    {[fn |-> "availablePorts",
      in |-> [protocol |-> p, tcpPorts |-> t, udpPorts |-> u],
      out |-> << >>, prev |-> << >>, calls |-> 0] :
        p \in ProtocolFlags,
        t \in SeqsUpTo(SamplePorts, MaxEntries),
        u \in SeqsUpTo(SamplePorts, MaxEntries)}

\* the function fn is evaluated on the input of the call
Returns(fn, result) ==
    /\ call.fn = fn
    /\ call.calls < MaxCalls
    /\ call' = [call EXCEPT !.calls = @ + 1, !.prev = call.out, !.out = result]
    /\ UNCHANGED <<cfg, src, ext, mainVars, flow>>

CallParsePorts == Returns("parsePorts", parsePorts(call.in.portsStr))

CallAvailablePorts ==
    Returns("availablePorts",
            BuildAvailablePorts(call.in.protocol, call.in.tcpPorts, call.in.udpPorts))

\* ------------------------------------------------------------ payload size
DefaultPayloadSize == 5

\* largest payload size of the inputs
MaxPayloadSize == 6

\* src.IntN(n) on a source whose next output is out
IntN(out, n) == out % n

\* the range is looked at before payload_size
getPayloadSizeRangeFirst(c, out) ==
    IF c.minPayloadSize > 0 /\ c.maxPayloadSize > c.minPayloadSize
    THEN c.minPayloadSize + IntN(out, c.maxPayloadSize - c.minPayloadSize + 1)
    ELSE IF c.payloadSize > 0 THEN c.payloadSize ELSE DefaultPayloadSize

getPayloadSize(c, out) ==
    IF c.payloadSize > 0
    THEN c.payloadSize
    ELSE IF c.minPayloadSize > 0 /\ c.maxPayloadSize > c.minPayloadSize
         THEN c.minPayloadSize + IntN(out, c.maxPayloadSize - c.minPayloadSize + 1)
         ELSE DefaultPayloadSize

\* the flags are not validated: a size can be negative
PayloadSizes == -1 .. MaxPayloadSize

GetPayloadSizeCalls ==
    {[fn |-> "getPayloadSize",
      in |-> [payloadSize |-> s, minPayloadSize |-> lo, maxPayloadSize |-> hi,
              out |-> o],
      out |-> 0, prev |-> 0, calls |-> 0] :
        s \in PayloadSizes, lo \in PayloadSizes, hi \in PayloadSizes,
        o \in 0 .. MaxPayloadSize}

CallGetPayloadSize == Returns("getPayloadSize", getPayloadSize(call.in, call.in.out))

\* ----------------------------------------------------------- flow duration
\* Durations and rates are fractions num / den with den > 0, in seconds and
\* in flows per second; the rounding of float64 is left out.
Rat(n, d) == [num |-> n, den |-> d]

RatLeq(a, b) == a.num * b.den <= b.num * a.den

RatEq(a, b) == a.num * b.den = b.num * a.den

RatAdd(a, b) == Rat(a.num * b.den + b.num * a.den, a.den * b.den)

RatSub(a, b) == Rat(a.num * b.den - b.num * a.den, a.den * b.den)

RatMul(a, b) == Rat(a.num * b.num, a.den * b.den)

\* a / b for b > 0
RatDiv(a, b) == Rat(a.num * b.den, a.den * b.num)

\* src.Float64() returns one of the fractions k / DrawDen, 0 <= k < DrawDen
DrawDen == 4

Float64Draws == {Rat(k, DrawDen) : k \in 0 .. DrawDen - 1}

\* the constant duration is raised to min_duration
flowDurationRaised(c, u) ==
    IF c.constantFlows
    THEN IF RatLeq(c.minDuration, RatDiv(Rat(c.maxConcurrent, 1), c.rate))
         THEN RatDiv(Rat(c.maxConcurrent, 1), c.rate)
         ELSE c.minDuration
    ELSE RatAdd(c.minDuration, RatMul(u, RatSub(c.maxDuration, c.minDuration)))

\* var duration float64; if constantFlows {...} else {...}
flowDuration(c, u) ==
    IF c.constantFlows
    THEN RatDiv(Rat(c.maxConcurrent, 1), c.rate)
    ELSE RatAdd(c.minDuration, RatMul(u, RatSub(c.maxDuration, c.minDuration)))

\* time.NewTicker panics unless rate > 0: a flow is admitted at a positive rate
Rates == {Rat(1, 2), Rat(1, 1), Rat(5, 1)}

\* values of --min_duration and --max_duration, in either order
Durations == {Rat(1, 2), Rat(1, 1), Rat(3, 1)}

FlowDurationCalls ==
    {[fn |-> "flowDuration",
      in |-> [constantFlows |-> cf, maxConcurrent |-> n, rate |-> r,
              minDuration |-> lo, maxDuration |-> hi, u |-> u],
      out |-> Rat(0, 1), prev |-> Rat(0, 1), calls |-> 0] :
        cf \in BOOLEAN, n \in 1 .. MaxConcurrent, r \in Rates,
        lo \in Durations, hi \in Durations, u \in Float64Draws}

CallFlowDuration == Returns("flowDuration", flowDuration(call.in, call.in.u))

\* ------------------------------------------ the functions, one call at a time
InitCall ==
    /\ cfg \in Configs
    /\ cfg.maxConcurrent = 1 /\ cfg.flowCount = 0 /\ ~cfg.flowTimeout
    /\ SchedulerInit
    /\ \/ call \in ParsePortsCalls
       \/ call \in AvailablePortsCalls
       \/ call \in GetPayloadSizeCalls
       \/ call \in FlowDurationCalls

NextCall ==
    \/ CallParsePorts
    \/ CallAvailablePorts
    \/ CallGetPayloadSize
    \/ CallFlowDuration

CallSpec == InitCall /\ [][NextCall]_vars

\* ------------------------------------------------ loading the configuration
\* Values of the flags, of the environment and of the config file as viper
\* holds them; rates and durations are whole numbers here.
FlagValues ==
    [logLevel      : {"info"},
     logFormat     : {"human", "xml"},
     server        : {"localhost"},
     rate          : 0 .. 1,
     maxConcurrent : 0 .. 1,
     protocol      : ProtocolFlags,
     minDuration   : 1 .. 2,
     maxDuration   : 1 .. 2,
     tcpPorts      : {<< >>, <<"8", "0">>},
     udpPorts      : {<< >>, <<"5", "3">>},
     mtu           : 1 .. 2,
     mss           : 0 .. 1]

\* CommonConfig.Validate of internal/config returns an error
CommonValidateErr(c) ==
    \/ c.logLevel \notin {"debug", "info", "warn", "error"}
    \/ c.logFormat \notin {"human", "json"}

\* ClientConfig.Validate of internal/config returns an error
ValidateErr(c) ==
    \/ CommonValidateErr(c)
    \/ c.server = ""
    \/ c.rate <= 0
    \/ c.maxConcurrent <= 0
    \/ c.protocol \notin {"tcp", "udp", "both"}
    \/ c.minDuration < 0 \/ c.maxDuration < 0
    \/ c.minDuration > c.maxDuration
    \/ (c.tcpPorts = << >> /\ c.udpPorts = << >>)
    \/ c.mtu <= 0 \/ c.mss <= 0
    \/ c.mss >= c.mtu

\* LoadClientConfig of internal/config: the config is populated and validated
InternalLoadClientConfig(flags) ==
    IF ValidateErr(flags)
    THEN [err |-> TRUE]
    ELSE [err |-> FALSE, config |-> flags]

\* LoadClientConfig of pkg/config, the one that cmd/client calls: the config
\* is populated and returned
LoadClientConfig(flags) == [err |-> FALSE, config |-> flags]

LoadCalls ==
    {[fn |-> f, in |-> v, out |-> [err |-> FALSE, config |-> v],
      prev |-> [err |-> FALSE, config |-> v], calls |-> 0] :
        f \in {"pkg/config.LoadClientConfig", "internal/config.LoadClientConfig"},
        v \in FlagValues}

CallLoadClientConfig ==
    Returns("pkg/config.LoadClientConfig", LoadClientConfig(call.in))

CallInternalLoadClientConfig ==
    Returns("internal/config.LoadClientConfig", InternalLoadClientConfig(call.in))

InitLoad ==
    /\ cfg \in Configs
    /\ cfg.maxConcurrent = 1 /\ cfg.flowCount = 0 /\ ~cfg.flowTimeout
    /\ SchedulerInit
    /\ call \in LoadCalls

NextLoad ==
    \/ CallLoadClientConfig
    \/ CallInternalLoadClientConfig

LoadSpec == InitLoad /\ [][NextLoad]_vars

\* ------------------------------------------------------------------ startup
\* main from the parsing of the port lists to the first tick, against a server
\* that refuses every connection
StartConfigs ==
    {[maxConcurrent |-> n, flowCount |-> 0, flowTimeout |-> FALSE, payloadSize |-> 1,
      protocol |-> p, tcpPorts |-> JoinEntries(t), udpPorts |-> JoinEntries(u)] :
        n \in 1 .. MaxConcurrent, p \in ProtocolFlags,
        t \in SeqsUpTo(1 .. 3, 1), u \in SeqsUpTo(1 .. 3, 1)}

InitStart ==
    /\ cfg \in StartConfigs
    /\ call = NoCall
    /\ mainPc = "startup"
    /\ mainCtx = "active"
    /\ flowCounter = 0
    /\ sem = 0
    /\ wg = 0
    /\ ticksDelivered = 0
    /\ tickerStopped = FALSE
    /\ metricsLogged = 0
    /\ exitCode = -1
    /\ flow = [i \in FlowIds |-> NoFlow]
    /\ src = SrcInit
    /\ ExtInit

\* availablePorts of the configuration
ConfiguredPorts(c) ==
    BuildAvailablePorts(c.protocol, parsePorts(c.tcpPorts), parsePorts(c.udpPorts))

\* the empty list is not looked at: the scheduler starts
StartupNoExit ==
    /\ mainPc = "startup"
    /\ mainPc' = "loop"
    /\ call' = [fn |-> "availablePorts", out |-> ConfiguredPorts(cfg)]
    /\ UNCHANGED <<cfg, src, ext, mainCtx, flowCounter, sem, wg, ticksDelivered,
                   tickerStopped, metricsLogged, exitCode, flow>>

\* the port lists are parsed, availablePorts is built, and the client exits
\* with status 1 when it is empty
Startup ==
    /\ mainPc = "startup"
    /\ call' = [fn |-> "availablePorts", out |-> ConfiguredPorts(cfg)]
    /\ IF Len(ConfiguredPorts(cfg)) = 0
       THEN mainPc' = "exited" /\ exitCode' = 1
       ELSE mainPc' = "loop" /\ UNCHANGED exitCode
    /\ UNCHANGED <<cfg, src, ext, mainCtx, flowCounter, sem, wg, ticksDelivered,
                   tickerStopped, metricsLogged, flow>>

\* pp := availablePorts[src.IntN(len(availablePorts))], generateFlow
FlowStartConfigured(i) ==
    /\ Alive
    /\ flow[i].pc = "start"
    /\ \E pp \in 1 .. Len(call.out) :
        flow' = [flow EXCEPT ![i] = [@ EXCEPT !.pc = "dial",
                                              !.proto = call.out[pp].Protocol,
                                              !.ctxDone = MainCtxDone]]
    /\ UNCHANGED <<aux, cfg, mainVars>>

NextStart ==
    \/ Startup
    \/ TickAdmit
    \/ TickSkip
    \/ \E i \in FlowIds : FlowStartConfigured(i)
    \/ \E i \in FlowIds : DialFail(i)
    \/ \E i \in FlowIds : FlowRelease(i)

StartSpec == InitStart /\ [][NextStart]_vars

\* ------------------------------------------ constant-flow mode, in tick time
\* With constant_flows the ticker fires every 1/rate seconds and the duration
\* of a flow is max_concurrent / rate, which is max_concurrent tick intervals.
\* Time is counted in served ticks, a tick being served when it is delivered.

\* generateFlow of a TCP flow: flowCtx is made with the timeout running from
\* now, after the tick that admitted the flow was served
ConstFlowStart(i) ==
    /\ Alive
    /\ flow[i].pc = "start"
    /\ flow' = [flow EXCEPT ![i] = [@ EXCEPT !.pc = "dial",
                                          !.proto = "tcp",
                                          !.ctxDone = MainCtxDone]]
    /\ timer' = [timer EXCEPT ![i] = ticksDelivered]
    /\ UNCHANGED <<src, call, metrics, sock, serverVars, cfg, mainVars>>

\* the timeout of flowCtx has run max_concurrent tick intervals (the count of
\* ticks says nothing once it has reached its cap)
TimerDue(i) ==
    \/ ticksDelivered >= MaxTicks
    \/ ticksDelivered - timer[i] >= cfg.maxConcurrent

ConstFlowExpire(i) == TimerDue(i) /\ FlowExpire(i)

\* a run without flow_count limit, flow_timeout and signal against an echoing
\* server
InitConst ==
    /\ Init
    /\ cfg.flowCount = 0
    /\ ~cfg.flowTimeout

NextConst ==
    \/ TickAdmit
    \/ TickSkip
    \/ \E i \in FlowIds : ConstFlowStart(i)
    \/ \E i \in FlowIds : ConstFlowExpire(i)
    \/ \E i \in FlowIds : DialOk(i)
    \/ \E i \in FlowIds : TcpWriteOk(i)
    \/ \E i \in FlowIds : TcpReadData(i)
    \/ \E i \in FlowIds : TcpHoldEnd(i)
    \/ \E i \in FlowIds : FlowRelease(i)

ConstSpec == InitConst /\ [][NextConst]_vars

\* ------------------------------------- TCP flows against an echoing server
\* pp is a TCP port (protocol tcp), generateFlow derives flowCtx from mainCtx
TcpFlowStart(i) ==
    /\ Alive
    /\ flow[i].pc = "start"
    /\ flow' = [flow EXCEPT ![i] = [@ EXCEPT !.pc = "dial",
                                          !.proto = "tcp",
                                          !.ctxDone = MainCtxDone]]
    /\ UNCHANGED <<aux, cfg, mainVars>>

\* conn.Write(payload) succeeds: mc.IncRequestsSent, mc.AddBytesSent(nSent)
TcpWriteCounted(i) ==
    /\ Alive
    /\ flow[i].pc = "write"
    /\ flow' = [flow EXCEPT ![i] = [@ EXCEPT !.pc =
                    IF ReadLoopDone(0, cfg.payloadSize) THEN "hold" ELSE "read"]]
    /\ metrics' = [metrics EXCEPT !.requestsSent = @ + 1,
                                  !.bytesSent = @ + cfg.payloadSize]
    /\ UNCHANGED <<src, call, timer, sock, serverVars, cfg, mainVars>>

\* buf := make([]byte, 1024)
ReadBufSize == 1024

\* conn.Read(buf) returns n bytes of the echo, which has no more bytes than
\* were written: totalReceived += n, mc.AddBytesReceived(n)
TcpReadCounted(i) ==
    /\ Alive
    /\ flow[i].pc = "read"
    /\ \E n \in 1 .. Min(ReadBufSize, cfg.payloadSize - flow[i].rcvd) :
        LET r == flow[i].rcvd + n IN
        /\ flow' = [flow EXCEPT ![i] = [@ EXCEPT !.rcvd = r,
                      !.pc = IF ReadLoopDone(r, cfg.payloadSize) THEN "hold" ELSE "read"]]
        /\ metrics' = [metrics EXCEPT !.bytesReceived = @ + n]
    /\ UNCHANGED <<src, call, timer, sock, serverVars, cfg, mainVars>>

\* a TCP-only run with a flow_count limit and no flow_timeout, of payloads of
\* every size
InitEcho ==
    /\ cfg \in [maxConcurrent : 1 .. MaxConcurrent,
                flowCount     : 1 .. MaxFlowCount,
                flowTimeout   : {FALSE},
                payloadSize   : 1 .. MaxPayloadSize]
    /\ call = NoCall
    /\ SchedulerInit

NextEcho ==
    \/ TickLimit
    \/ TickAdmit
    \/ TickSkip
    \/ Drain
    \/ Finish
    \/ \E i \in FlowIds : TcpFlowStart(i)
    \/ \E i \in FlowIds : FlowExpire(i)
    \/ \E i \in FlowIds : DialOk(i)
    \/ \E i \in FlowIds : TcpWriteCounted(i)
    \/ \E i \in FlowIds : TcpReadCounted(i)
    \/ \E i \in FlowIds : TcpHoldEnd(i)
    \/ \E i \in FlowIds : FlowRelease(i)

EchoSpec == InitEcho /\ [][NextEcho]_vars

\* the same runs, with the signal handler
NextReport ==
    \/ NextEcho
    \/ Signal

ReportSpec == InitEcho /\ [][NextReport]_vars

\* ------------------------------------ TCP flows and their connections
\* net.Dial succeeds: the flow has a connection, whose Close is deferred
SockDialOk(i) ==
    /\ Alive
    /\ flow[i].pc = "dial"
    /\ flow' = [flow EXCEPT ![i] = [@ EXCEPT !.pc = "write"]]
    /\ sock' = [sock EXCEPT ![i] = "open"]
    /\ UNCHANGED <<src, call, timer, metrics, serverVars, cfg, mainVars>>

CloseConnSkipped(s) == s

\* defer func() { _ = conn.Close() }()
CloseConn(s) == IF s = "open" THEN "closed" ELSE s

\* generateFlow returns: the deferred conn.Close() if there is a connection,
\* flowCancel() and wg.Done()
FlowReturnClosing(i) ==
    /\ flow' = [flow EXCEPT ![i] = Returned(@)]
    /\ wg' = wg - 1
    /\ sock' = [sock EXCEPT ![i] = CloseConn(@)]
    /\ UNCHANGED <<src, call, timer, metrics, serverVars, cfg, mainPc, mainCtx,
                   flowCounter, sem, ticksDelivered, tickerStopped,
                   metricsLogged, exitCode>>

\* net.Dial fails: warning, return
SockDialFail(i) ==
    /\ Alive
    /\ flow[i].pc = "dial"
    /\ FlowReturnClosing(i)

\* conn.Write fails: warning, return
SockWriteFail(i) ==
    /\ Alive
    /\ flow[i].pc = "write"
    /\ FlowReturnClosing(i)

HoldOverAtOnce(f) == TRUE

\* <-flowCtx.Done()
HoldOver(f) == f.ctxDone

\* <-flowCtx.Done() returns, generateFlow returns
SockHoldEnd(i) ==
    /\ Alive
    /\ flow[i].pc = "hold"
    /\ HoldOver(flow[i])
    /\ FlowReturnClosing(i)

\* TCP-only runs whose flows may fail to dial, to write and to read
InitSock ==
    /\ Init
    /\ cfg.flowCount > 0

SockStep(i) ==
    \/ TcpFlowStart(i)
    \/ FlowExpire(i)
    \/ SockDialOk(i)
    \/ SockDialFail(i)
    \/ TcpWriteOk(i)
    \/ SockWriteFail(i)
    \/ TcpReadData(i)
    \/ TcpReadErr(i)
    \/ SockHoldEnd(i)
    \/ FlowRelease(i)

NextSock ==
    \/ TickLimit
    \/ TickAdmit
    \/ TickSkip
    \/ Drain
    \/ Finish
    \/ MainDeadline
    \/ \E i \in FlowIds : SockStep(i)

SockSpec == InitSock /\ [][NextSock]_vars

\* ------------------------------------------------------------- UDP flows
\* pp is a UDP port (protocol udp), generateFlow derives flowCtx from mainCtx
UdpFlowStart(i) ==
    /\ Alive
    /\ flow[i].pc = "start"
    /\ flow' = [flow EXCEPT ![i] = [@ EXCEPT !.pc = "dial",
                                          !.proto = "udp",
                                          !.ctxDone = MainCtxDone]]
    /\ UNCHANGED <<aux, cfg, mainVars>>

\* if len(payload) > mtu { continue }: back to the loop head, nothing is sent
MtuSkip(size, mtu) == size > mtu

\* UDP loop body with a payload that fits the MTU: conn.Write succeeds
UdpSend(i) ==
    /\ ~MtuSkip(cfg.payloadSize, cfg.mtu)
    /\ UdpWriteOk(i)

\* a UDP-only run with a flow_count limit and no flow_timeout, of payloads
\* that fit the MTU and of payloads that do not
InitUdp ==
    /\ cfg \in [maxConcurrent : 1 .. MaxConcurrent,
                flowCount     : 1 .. MaxFlowCount,
                flowTimeout   : {FALSE},
                payloadSize   : 1 .. 2,
                mtu           : {1}]
    /\ call = NoCall
    /\ SchedulerInit

\* steps of the UDP flow goroutine i that do not wait for its duration
UdpStep(i) ==
    \/ UdpFlowStart(i)
    \/ DialOk(i)
    \/ UdpLoopEnd(i)
    \/ UdpSend(i)
    \/ UdpReadEnd(i)
    \/ UdpSleepEnd(i)
    \/ FlowRelease(i)

NextUdp ==
    \/ TickLimit
    \/ TickAdmit
    \/ TickSkip
    \/ Drain
    \/ Finish
    \/ \E i \in FlowIds : FlowExpire(i)
    \/ \E i \in FlowIds : UdpStep(i)
    \/ \E i \in FlowIds : UdpCanceled(i)

\* The goroutines and the loop are scheduled, and a select that finds
\* flowCtx.Done() ready again and again takes it; nothing says how long the
\* duration of a flow is.
UdpFairSpec ==
    /\ InitUdp
    /\ [][NextUdp]_vars
    /\ WF_vars(TickLimit \/ TickAdmit \/ TickSkip)
    /\ WF_vars(Drain)
    /\ WF_vars(Finish)
    /\ \A i \in FlowIds : WF_vars(UdpStep(i))
    /\ \A i \in FlowIds : SF_vars(UdpCanceled(i))

\* ------------------------------------------------------- the server Manager
\* the Manager holds at most MaxServers servers and takes MaxManagerCalls
\* calls of Start and Stop
MaxServers == 2
MaxManagerCalls == 3

\* everything outside the server
clientVars == <<cfg, mainVars, flow, src, call, timer, metrics, sock>>

\* Manager.AddServer: append under the mutex
AddServer ==
    /\ Len(manager.servers) < MaxServers
    /\ manager' = [manager EXCEPT !.servers = Append(@, [up |-> FALSE])]
    /\ UNCHANGED <<tcpServer, conn, hostVars, clientVars>>

AlreadyRunningIgnored(m) == FALSE

\* Manager.Start: "if m.running"
AlreadyRunning(m) == m.running

RollbackSkipped(m) == {}

\* Manager.Start: the servers stopped once a Start has failed
RollbackTargets(m) == DOMAIN m.servers

\* Manager.Start, under the mutex.  A server's Start and Stop are calls on
\* the Server interface: each succeeds or fails.
ManagerStart ==
    /\ manager.calls < MaxManagerCalls
    /\ \E startFail \in SUBSET DOMAIN manager.servers :
       \E stopFail \in SUBSET DOMAIN manager.servers :
          LET all == DOMAIN manager.servers
              started == [i \in all |->
                            [up |-> manager.servers[i].up \/ i \notin startFail]]
              targets == RollbackTargets(manager)
              entry == [NoOp EXCEPT !.op = "Start",
                                    !.wasRunning = manager.running]
          IN  manager' =
                IF AlreadyRunning(manager)
                THEN [manager EXCEPT
                        !.calls = @ + 1,
                        !.last = [entry EXCEPT !.err = "already running"]]
                ELSE IF startFail # {}
                THEN [manager EXCEPT
                        !.calls = @ + 1,
                        !.servers = [i \in all |->
                            [up |-> /\ started[i].up
                                    /\ (i \notin targets \/ i \in stopFail)]],
                        !.last = [entry EXCEPT
                                    !.err = "start",
                                    !.startCalled = all,
                                    !.startFailed = startFail,
                                    !.stopCalled = targets,
                                    !.stopFailed = stopFail \cap targets]]
                ELSE [manager EXCEPT
                        !.calls = @ + 1,
                        !.running = TRUE,
                        !.servers = started,
                        !.last = [entry EXCEPT !.startCalled = all]]
    /\ UNCHANGED <<tcpServer, conn, hostVars, clientVars>>

StopErrorsDropped(failed) == FALSE

\* Manager.Stop: "if len(errors) > 0"
StopErrors(failed) == failed # {}

\* Manager.Stop, under the mutex: one goroutine per server calls its Stop,
\* and Stop waits for all of them.
ManagerStop ==
    /\ manager.calls < MaxManagerCalls
    /\ \E stopFail \in SUBSET DOMAIN manager.servers :
          LET all == DOMAIN manager.servers
              entry == [NoOp EXCEPT !.op = "Stop",
                                    !.wasRunning = manager.running]
          IN  manager' =
                IF ~manager.running
                THEN [manager EXCEPT !.calls = @ + 1, !.last = entry]
                ELSE [manager EXCEPT
                        !.calls = @ + 1,
                        !.canceled = TRUE,
                        !.running = FALSE,
                        !.servers = [i \in all |->
                            [up |-> manager.servers[i].up /\ i \in stopFail]],
                        !.last = [entry EXCEPT
                                    !.err = IF StopErrors(stopFail)
                                            THEN "stop" ELSE "nil",
                                    !.stopCalled = all,
                                    !.stopFailed = stopFail]]
    /\ UNCHANGED <<tcpServer, conn, hostVars, clientVars>>

\* a goroutine calls Manager.Wait and blocks on m.ctx.Done()
ManagerWait ==
    /\ manager.waiter = "none"
    /\ manager' = [manager EXCEPT !.waiter = "blocked"]
    /\ UNCHANGED <<tcpServer, conn, hostVars, clientVars>>

ContextDoneAnyway(m) == TRUE

\* <-m.ctx.Done()
ContextDone(m) == m.canceled

\* Manager.Wait returns
ManagerWaitReturn ==
    /\ manager.waiter = "blocked"
    /\ ContextDone(manager)
    /\ manager' = [manager EXCEPT !.waiter = "returned"]
    /\ UNCHANGED <<tcpServer, conn, hostVars, clientVars>>

InitManager ==
    /\ cfg \in Configs
    /\ cfg.maxConcurrent = 1 /\ cfg.flowCount = 0 /\ ~cfg.flowTimeout
    /\ SchedulerInit
    /\ call = NoCall

NextManager ==
    \/ AddServer
    \/ ManagerStart
    \/ ManagerStop
    \/ ManagerWait
    \/ ManagerWaitReturn

ManagerSpec == InitManager /\ [][NextManager]_vars

\* ------------------------------------------------------------ the TCPServer
\* at most MaxConns clients connect to the server
MaxConns == 4

\* TCPServer.Start on a new server whose net.Listen succeeds: the listener is
\* kept, and acceptConnections is started with one count of the WaitGroup
ServerStartOk ==
    /\ tcpServer.started = "no"
    /\ tcpServer.stopPc = "idle"
    /\ tcpServer' = [tcpServer EXCEPT !.started = "ok",
                                      !.listener = "open",
                                      !.wg = @ + 1,
                                      !.acceptPc = "accept"]
    /\ UNCHANGED <<manager, conn, hostVars, clientVars>>

\* TCPServer.Start whose net.Listen fails: the error is returned
ServerStartFail ==
    /\ tcpServer.started = "no"
    /\ tcpServer.stopPc = "idle"
    /\ tcpServer' = [tcpServer EXCEPT !.started = "failed"]
    /\ UNCHANGED <<manager, conn, hostVars, clientVars>>

\* a client connects: the connection waits in the queue of the open listener
ClientConnect ==
    /\ tcpServer.listener = "open"
    /\ tcpServer.accepted + tcpServer.backlog < MaxConns
    /\ tcpServer' = [tcpServer EXCEPT !.backlog = @ + 1]
    /\ UNCHANGED <<manager, conn, hostVars, clientVars>>

\* acceptConnections: Accept returns a connection, and a handler goroutine is
\* started for it with one more count of the WaitGroup
AcceptOk ==
    /\ tcpServer.acceptPc = "accept"
    /\ tcpServer.listener = "open"
    /\ tcpServer.backlog > 0
    /\ tcpServer' = [tcpServer EXCEPT !.backlog = @ - 1,
                                      !.accepted = @ + 1,
                                      !.handlers = @ + 1,
                                      !.wg = @ + 1]
    /\ UNCHANGED <<manager, conn, hostVars, clientVars>>

\* acceptConnections: Accept returns an error (the listener is closed, or the
\* accept itself failed): the loop ends when the context is done, and logs
\* and goes on otherwise
AcceptErr ==
    /\ tcpServer.acceptPc = "accept"
    /\ tcpServer' = IF tcpServer.ctxDone
                    THEN [tcpServer EXCEPT !.acceptPc = "exited", !.wg = @ - 1]
                    ELSE tcpServer
    /\ UNCHANGED <<manager, conn, hostVars, clientVars>>

\* a handler goroutine: Handle returns, then the deferred wg.Done
HandlerReturn ==
    /\ tcpServer.handlers > 0
    /\ tcpServer' = [tcpServer EXCEPT !.handlers = @ - 1, !.wg = @ - 1]
    /\ UNCHANGED <<manager, conn, hostVars, clientVars>>

\* TCPServer.Stop: s.cancel()
StopCancel ==
    /\ tcpServer.stopPc = "idle"
    /\ tcpServer.started # "no"
    /\ tcpServer' = [tcpServer EXCEPT !.ctxDone = TRUE, !.stopPc = "close"]
    /\ UNCHANGED <<manager, conn, hostVars, clientVars>>

\* TCPServer.Stop: the listener, if there is one, is closed; the connections
\* still waiting in its queue are dropped
StopClose ==
    /\ tcpServer.stopPc = "close"
    /\ tcpServer' = IF tcpServer.listener # "nil"
                    THEN [tcpServer EXCEPT !.listener = "closed",
                                           !.backlog = 0,
                                           !.stopPc = "wait"]
                    ELSE [tcpServer EXCEPT !.stopPc = "wait"]
    /\ UNCHANGED <<manager, conn, hostVars, clientVars>>

ServerWaitSkipped(s) == TRUE

\* TCPServer.Stop: s.wg.Wait() returns
ServerWaitDone(s) == s.wg = 0

\* TCPServer.Stop: after the wait, Stop returns nil
StopReturn ==
    /\ tcpServer.stopPc = "wait"
    /\ ServerWaitDone(tcpServer)
    /\ tcpServer' = [tcpServer EXCEPT !.stopPc = "returned"]
    /\ UNCHANGED <<manager, conn, hostVars, clientVars>>

InitServer ==
    /\ cfg \in Configs
    /\ cfg.maxConcurrent = 1 /\ cfg.flowCount = 0 /\ ~cfg.flowTimeout
    /\ SchedulerInit
    /\ call = NoCall

NextServer ==
    \/ ServerStartOk
    \/ ServerStartFail
    \/ ClientConnect
    \/ AcceptOk
    \/ AcceptErr
    \/ HandlerReturn
    \/ StopCancel
    \/ StopClose
    \/ StopReturn

ServerSpec == InitServer /\ [][NextServer]_vars

\* -------------------------------------------------------- the TCP handler
\* a client sends a message of at most MaxMsgLen bytes, each one of Bytes
MaxMsgLen == 3
Bytes == {0, 1}
Messages == SeqsUpTo(Bytes, MaxMsgLen)

\* Handle: "buf := make([]byte, 1024)"
HandlerBufSize == 1024

\* conn.Read(buf): the bytes read replace the head of the buffer
ReadInto(buf, data) == data \o SubSeq(buf, Len(data) + 1, Len(buf))

SliceWhole(buf, n) == buf

\* buf[:n]
Slice(buf, n) == SubSeq(buf, 1, n)

\* Handle is called with a connection of a client that is about to send msg
HandleBegin ==
    /\ conn.pc = "none"
    /\ \E msg \in Messages :
          conn' = [conn EXCEPT !.pc = "read", !.clientOpen = TRUE,
                               !.toSend = msg]
    /\ UNCHANGED <<manager, tcpServer, hostVars, clientVars>>

\* the client writes the next bytes of its message
ClientWrite ==
    /\ conn.clientOpen
    /\ \E k \in 1 .. Len(conn.toSend) :
          conn' = [conn EXCEPT
                     !.wire = @ \o SubSeq(conn.toSend, 1, k),
                     !.toSend = SubSeq(@, k + 1, Len(@))]
    /\ UNCHANGED <<manager, tcpServer, hostVars, clientVars>>

\* the client closes its end
ClientClose ==
    /\ conn.clientOpen
    /\ conn' = [conn EXCEPT !.clientOpen = FALSE]
    /\ UNCHANGED <<manager, tcpServer, hostVars, clientVars>>

\* Handle: conn.Read returns n > 0 bytes, which are counted
HandlerRead ==
    /\ conn.pc = "read"
    /\ \E n \in 1 .. Min(Len(conn.wire), HandlerBufSize) :
          conn' = [conn EXCEPT
                     !.pc = "write",
                     !.lastRead = "ok",
                     !.n = n,
                     !.buf = ReadInto(@, SubSeq(conn.wire, 1, n)),
                     !.wire = SubSeq(@, n + 1, Len(@)),
                     !.read = @ \o SubSeq(conn.wire, 1, n),
                     !.bytesReceived = @ + n]
    /\ UNCHANGED <<manager, tcpServer, hostVars, clientVars>>

\* Handle: conn.Read returns io.EOF; Handle returns and the deferred
\* conn.Close runs
HandlerReadEOF ==
    /\ conn.pc = "read"
    /\ conn.wire = << >>
    /\ ~conn.clientOpen
    /\ conn' = [conn EXCEPT !.pc = "closed", !.lastRead = "eof"]
    /\ UNCHANGED <<manager, tcpServer, hostVars, clientVars>>

\* Handle: conn.Read returns another error; Handle returns and the deferred
\* conn.Close runs
HandlerReadErr ==
    /\ conn.pc = "read"
    /\ conn' = [conn EXCEPT !.pc = "closed", !.lastRead = "err"]
    /\ UNCHANGED <<manager, tcpServer, hostVars, clientVars>>

\* Handle: conn.Write(buf[:n]) succeeds, and the bytes are counted
HandlerWriteOk ==
    /\ conn.pc = "write"
    /\ LET out == Slice(conn.buf, conn.n)
       IN  conn' = [conn EXCEPT !.pc = "read",
                                !.echoed = @ \o out,
                                !.bytesSent = @ + Len(out)]
    /\ UNCHANGED <<manager, tcpServer, hostVars, clientVars>>

\* Handle: conn.Write(buf[:n]) fails after k < n bytes; Handle returns and the
\* deferred conn.Close runs
HandlerWriteErr ==
    /\ conn.pc = "write"
    /\ LET out == Slice(conn.buf, conn.n)
       IN  \E k \in 0 .. Len(out) - 1 :
              conn' = [conn EXCEPT !.pc = "closed",
                                   !.writeFailed = TRUE,
                                   !.echoed = @ \o SubSeq(out, 1, k)]
    /\ UNCHANGED <<manager, tcpServer, hostVars, clientVars>>

InitHandler ==
    /\ cfg \in Configs
    /\ cfg.maxConcurrent = 1 /\ cfg.flowCount = 0 /\ ~cfg.flowTimeout
    /\ SchedulerInit
    /\ call = NoCall

NextHandler ==
    \/ HandleBegin
    \/ ClientWrite
    \/ ClientClose
    \/ HandlerRead
    \/ HandlerReadEOF
    \/ HandlerReadErr
    \/ HandlerWriteOk
    \/ HandlerWriteErr

HandlerSpec == InitHandler /\ [][NextHandler]_vars

\* ------------------------------------------------------ the health Checker
\* the Checker takes MaxHealthCalls calls and requests
MaxHealthCalls == 4

\* everything but the health Checker
notHealth == <<manager, tcpServer, conn, proc, collector, clientVars>>

\* the flags and the error of a call, as the call found and left them
HealthCall(op, err) == [op |-> op, ready |-> health.ready,
                        healthy |-> health.healthy, err |-> err,
                        code |-> 0, body |-> ""]

\* Checker.SetReady
SetReady(b) ==
    /\ health.calls < MaxHealthCalls
    /\ health' = [health EXCEPT !.ready = b, !.calls = @ + 1,
                                !.last = HealthCall("SetReady", "nil")]
    /\ UNCHANGED notHealth

\* Checker.SetHealthy
SetHealthy(b) ==
    /\ health.calls < MaxHealthCalls
    /\ health' = [health EXCEPT !.healthy = b, !.calls = @ + 1,
                                !.last = HealthCall("SetHealthy", "nil")]
    /\ UNCHANGED notHealth

\* Checker.Start: the HTTP server is made and ListenAndServe is started in a
\* goroutine; healthy is set at once and nil is returned
CheckerStart ==
    /\ health.calls < MaxHealthCalls
    /\ health.server = "nil"
    /\ health' = [health EXCEPT !.server = "set", !.http = "starting",
                                !.healthy = TRUE, !.calls = @ + 1,
                                !.last = HealthCall("Start", "nil")]
    /\ UNCHANGED notHealth

\* the goroutine of Start: ListenAndServe listens
ListenAndServeOk ==
    /\ health.http = "starting"
    /\ health' = [health EXCEPT !.http = "serving"]
    /\ UNCHANGED notHealth

\* the goroutine of Start: ListenAndServe fails, which is logged
ListenAndServeErr ==
    /\ health.http = "starting"
    /\ health' = [health EXCEPT !.http = "failed"]
    /\ UNCHANGED notHealth

ClearHealthyOnly(h) == [h EXCEPT !.healthy = FALSE]

\* Checker.Stop: c.SetHealthy(false), c.SetReady(false)
ClearFlags(h) == [h EXCEPT !.healthy = FALSE, !.ready = FALSE]

\* Checker.Stop: nil without a server; otherwise both flags are cleared and
\* the server is shut down, which may fail
CheckerStop ==
    /\ health.calls < MaxHealthCalls
    /\ \E err \in {"nil", "shutdown"} :
          health' =
            IF health.server = "nil"
            THEN [health EXCEPT !.calls = @ + 1,
                                !.last = HealthCall("Stop", "nil")]
            ELSE [ClearFlags(health) EXCEPT
                                !.http = "shutdown", !.calls = @ + 1,
                                !.last = HealthCall("Stop", err)]
    /\ UNCHANGED notHealth

AnswerInverted(flag, yes, no) ==
    IF flag THEN [code |-> 503, body |-> no] ELSE [code |-> 200, body |-> yes]

\* the handlers of /health and /ready: 200 with the one body when the flag is
\* set, 503 with the other body when it is not
Answer(flag, yes, no) ==
    IF flag THEN [code |-> 200, body |-> yes] ELSE [code |-> 503, body |-> no]

\* GET /health on the serving HTTP server
GetHealth ==
    /\ health.calls < MaxHealthCalls
    /\ health.http = "serving"
    /\ LET a == Answer(health.healthy, "OK", "Unhealthy")
       IN  health' = [health EXCEPT
                        !.calls = @ + 1,
                        !.last = [HealthCall("GET /health", "nil") EXCEPT
                                    !.code = a.code, !.body = a.body]]
    /\ UNCHANGED notHealth

\* GET /ready on the serving HTTP server
GetReady ==
    /\ health.calls < MaxHealthCalls
    /\ health.http = "serving"
    /\ LET a == Answer(health.ready, "Ready", "Not Ready")
       IN  health' = [health EXCEPT
                        !.calls = @ + 1,
                        !.last = [HealthCall("GET /ready", "nil") EXCEPT
                                    !.code = a.code, !.body = a.body]]
    /\ UNCHANGED notHealth

InitHealth ==
    /\ cfg \in Configs
    /\ cfg.maxConcurrent = 1 /\ cfg.flowCount = 0 /\ ~cfg.flowTimeout
    /\ SchedulerInit
    /\ call = NoCall

NextHealth ==
    \/ \E b \in BOOLEAN : SetReady(b)
    \/ \E b \in BOOLEAN : SetHealthy(b)
    \/ CheckerStart
    \/ ListenAndServeOk
    \/ ListenAndServeErr
    \/ CheckerStop
    \/ GetHealth
    \/ GetReady

HealthSpec == InitHealth /\ [][NextHealth]_vars

\* ------------------------------------- the MetricsCollector, concurrently
\* MaxWorkers goroutines call the collector at the same time, each once, for
\* the same protocol and port, with a delta of at most MaxDelta
MaxWorkers == 2
MaxDelta == 2
Workers == 1 .. MaxWorkers

\* the sync.Maps and counters that exist: 0 is the one made before the calls
\* started, w the one that goroutine w makes
Ids == 0 .. MaxWorkers

\* everything but the collector
notCollector == <<manager, tcpServer, conn, health, proc, clientVars>>

\* NewMetricsCollector(), then possibly calls that made the entry of the key
\* before the concurrent calls start
NewMetricsCollector(existed) ==
    [pc |-> "run",
     total |-> 0,
     outer |-> IF existed THEN 0 ELSE -1,
     ports |-> [id \in Ids |-> IF existed /\ id = 0 THEN 0 ELSE -1],
     value |-> [id \in Ids |-> 0],
     calls |-> 0,
     sum |-> 0,
     w |-> [g \in Workers |-> [pc |-> "idle", delta |-> 0, pm |-> -1, ctr |-> -1]]]

CollectorNew ==
    /\ collector.pc = "none"
    /\ \E existed \in BOOLEAN : collector' = NewMetricsCollector(existed)
    /\ UNCHANGED notCollector

\* IncRequestsSent / IncRequestsReceived / AddBytesSent / AddBytesReceived:
\* the call starts, and the total is added to atomically
UpdateBegin(g) ==
    /\ collector.pc = "run"
    /\ collector.w[g].pc = "idle"
    /\ \E d \in 1 .. MaxDelta :
          collector' = [collector EXCEPT
                          !.total = @ + d,
                          !.calls = @ + 1,
                          !.sum = @ + d,
                          !.w[g].delta = d,
                          !.w[g].pc = "loadProtocol"]
    /\ UNCHANGED notCollector

\* updateSyncMap: m.Load(protocol)
LoadProtocol(g) ==
    /\ collector.pc = "run"
    /\ collector.w[g].pc = "loadProtocol"
    /\ collector' = IF collector.outer # -1
                    THEN [collector EXCEPT !.w[g].pm = collector.outer,
                                           !.w[g].pc = "loadPort"]
                    ELSE [collector EXCEPT !.w[g].pm = g,
                                           !.w[g].pc = "storeProtocol"]
    /\ UNCHANGED notCollector

\* updateSyncMap: m.Store(protocol, portsMap) with the new, empty portsMap
StoreProtocol(g) ==
    /\ collector.pc = "run"
    /\ collector.w[g].pc = "storeProtocol"
    /\ collector' = [collector EXCEPT !.outer = collector.w[g].pm,
                                      !.w[g].pc = "loadPort"]
    /\ UNCHANGED notCollector

\* updateSyncMap: portsMap.Load(port)
LoadPort(g) ==
    /\ collector.pc = "run"
    /\ collector.w[g].pc = "loadPort"
    /\ collector' = IF collector.ports[collector.w[g].pm] # -1
                    THEN [collector EXCEPT
                            !.w[g].ctr = collector.ports[collector.w[g].pm],
                            !.w[g].pc = "add"]
                    ELSE [collector EXCEPT !.w[g].ctr = g,
                                           !.w[g].pc = "storePort"]
    /\ UNCHANGED notCollector

\* updateSyncMap: portsMap.Store(port, counter) with the new counter
StorePort(g) ==
    /\ collector.pc = "run"
    /\ collector.w[g].pc = "storePort"
    /\ collector' = [collector EXCEPT
                        !.ports[collector.w[g].pm] = collector.w[g].ctr,
                        !.w[g].pc = "add"]
    /\ UNCHANGED notCollector

\* updateSyncMap: counter.Add(delta), and the call returns
CounterAdd(g) ==
    /\ collector.pc = "run"
    /\ collector.w[g].pc = "add"
    /\ collector' = [collector EXCEPT
                        !.value[collector.w[g].ctr] = @ + collector.w[g].delta,
                        !.w[g].pc = "done"]
    /\ UNCHANGED notCollector

\* getSyncMapData: the count that the table shows for the key
Reported ==
    IF collector.outer = -1 \/ collector.ports[collector.outer] = -1
    THEN 0
    ELSE collector.value[collector.ports[collector.outer]]

InitCollector ==
    /\ cfg \in Configs
    /\ cfg.maxConcurrent = 1 /\ cfg.flowCount = 0 /\ ~cfg.flowTimeout
    /\ SchedulerInit
    /\ call = NoCall

UpdateStep(g) ==
    \/ UpdateBegin(g)
    \/ LoadProtocol(g)
    \/ StoreProtocol(g)
    \/ LoadPort(g)
    \/ StorePort(g)
    \/ CounterAdd(g)

NextCollector ==
    \/ CollectorNew
    \/ \E g \in Workers : UpdateStep(g)

CollectorSpec == InitCollector /\ [][NextCollector]_vars

\* ------------------------------------------------ the echo server process
\* main of the echo server, with one TCP server in its Manager.  proc.pc is
\* the call that main makes next; "wait" is the receive from sigChan.

\* main: healthChecker := health.NewChecker(); healthChecker.Start(port)
MainHealthStart ==
    /\ proc.pc = "none"
    /\ health.server = "nil"
    /\ health' = [health EXCEPT !.server = "set", !.http = "starting",
                                !.healthy = TRUE, !.calls = @ + 1,
                                !.last = HealthCall("Start", "nil")]
    /\ proc' = [proc EXCEPT !.pc = "addServer"]
    /\ UNCHANGED <<manager, tcpServer, conn, collector, clientVars>>

\* main: manager := server.NewManager(); manager.AddServer(tcpServer)
MainAddServer ==
    /\ proc.pc = "addServer"
    /\ manager' = [manager EXCEPT !.servers = Append(@, [up |-> FALSE])]
    /\ proc' = [proc EXCEPT !.pc = "managerStart"]
    /\ UNCHANGED <<tcpServer, conn, health, collector, clientVars>>

\* main in manager.Start(): server.Start() on the TCP server, with either
\* outcome
MainServerStart ==
    /\ proc.pc = "managerStart"
    /\ ServerStartOk \/ ServerStartFail

\* main in manager.Start(), every Start succeeded: m.running = true
MainManagerStarted ==
    /\ proc.pc = "managerStart"
    /\ tcpServer.started = "ok"
    /\ manager' = [manager EXCEPT
                     !.running = TRUE,
                     !.calls = @ + 1,
                     !.servers = [i \in DOMAIN @ |-> [up |-> TRUE]],
                     !.last = [NoOp EXCEPT !.op = "Start",
                                           !.startCalled = DOMAIN manager.servers]]
    /\ proc' = [proc EXCEPT !.pc = "setReady"]
    /\ UNCHANGED <<tcpServer, conn, health, collector, clientVars>>

\* main in manager.Start(), a Start failed and the servers were stopped
\* again: the error is returned and main ends with logging.Logger.Fatalf
MainManagerStartFailed ==
    /\ proc.pc = "managerStart"
    /\ tcpServer.started = "failed"
    /\ tcpServer.stopPc = "returned"
    /\ manager' = [manager EXCEPT
                     !.calls = @ + 1,
                     !.last = [NoOp EXCEPT !.op = "Start",
                                           !.err = "start",
                                           !.startCalled = DOMAIN manager.servers,
                                           !.startFailed = DOMAIN manager.servers,
                                           !.stopCalled = DOMAIN manager.servers]]
    /\ proc' = [proc EXCEPT !.pc = "fatal"]
    /\ UNCHANGED <<tcpServer, conn, health, collector, clientVars>>

\* main: healthChecker.SetReady(true)
MainSetReady ==
    /\ proc.pc = "setReady"
    /\ health' = [health EXCEPT !.ready = TRUE, !.calls = @ + 1,
                                !.last = HealthCall("SetReady", "nil")]
    /\ proc' = [proc EXCEPT !.pc = "wait"]
    /\ UNCHANGED <<manager, tcpServer, conn, collector, clientVars>>

\* main: sig := <-sigChan
MainSignal ==
    /\ proc.pc = "wait"
    /\ proc' = [proc EXCEPT !.pc = "setNotReady"]
    /\ UNCHANGED <<manager, tcpServer, conn, health, collector, clientVars>>

NotReadySkipped(h) == h

\* healthChecker.SetReady(false)
NotReady(h) == [h EXCEPT !.ready = FALSE]

\* main: healthChecker.SetReady(false)
MainSetNotReady ==
    /\ proc.pc = "setNotReady"
    /\ health' = [NotReady(health) EXCEPT
                    !.calls = @ + 1,
                    !.last = HealthCall("SetReady", "nil")]
    /\ proc' = [proc EXCEPT !.pc = "managerStop"]
    /\ UNCHANGED <<manager, tcpServer, conn, collector, clientVars>>

\* main in manager.Stop(): m.cancel(), and the goroutines that stop the
\* servers are started
MainManagerStopBegin ==
    /\ proc.pc = "managerStop"
    /\ manager.running
    /\ manager' = [manager EXCEPT !.canceled = TRUE]
    /\ proc' = [proc EXCEPT !.pc = "stopServers"]
    /\ UNCHANGED <<tcpServer, conn, health, collector, clientVars>>

\* TCPServer.Stop is called: by the goroutine of manager.Stop(), or by the
\* rollback of manager.Start()
MainServerStop ==
    /\ \/ proc.pc = "stopServers"
       \/ proc.pc = "managerStart" /\ tcpServer.started = "failed"
    /\ StopCancel

\* main in manager.Stop(): wg.Wait() returns once the Stop of every server
\* has returned; m.running = false
MainManagerStopped ==
    /\ proc.pc = "stopServers"
    /\ tcpServer.stopPc = "returned"
    /\ manager' = [manager EXCEPT
                     !.running = FALSE,
                     !.calls = @ + 1,
                     !.servers = [i \in DOMAIN @ |-> [up |-> FALSE]],
                     !.last = [NoOp EXCEPT !.op = "Stop",
                                           !.wasRunning = TRUE,
                                           !.stopCalled = DOMAIN manager.servers]]
    /\ proc' = [proc EXCEPT !.pc = "healthStop"]
    /\ UNCHANGED <<tcpServer, conn, health, collector, clientVars>>

\* main: healthChecker.Stop(), whose error is logged
MainHealthStop ==
    /\ proc.pc = "healthStop"
    /\ \E err \in {"nil", "shutdown"} :
          health' = [ClearFlags(health) EXCEPT
                        !.http = "shutdown", !.calls = @ + 1,
                        !.last = HealthCall("Stop", err)]
    /\ proc' = [proc EXCEPT !.pc = "flush"]
    /\ UNCHANGED <<manager, tcpServer, conn, collector, clientVars>>

\* main: mc.FlushMetrics(), "Echo server shutdown complete"
MainFlush ==
    /\ proc.pc = "flush"
    /\ proc' = [proc EXCEPT !.pc = "complete", !.flushed = TRUE]
    /\ UNCHANGED <<manager, tcpServer, conn, health, collector, clientVars>>

InitProc ==
    /\ cfg \in Configs
    /\ cfg.maxConcurrent = 1 /\ cfg.flowCount = 0 /\ ~cfg.flowTimeout
    /\ SchedulerInit
    /\ call = NoCall

\* the steps of main
MainStep ==
    \/ MainHealthStart
    \/ MainAddServer
    \/ MainServerStart
    \/ MainManagerStarted
    \/ MainManagerStartFailed
    \/ MainSetReady
    \/ MainSetNotReady
    \/ MainManagerStopBegin
    \/ MainServerStop
    \/ MainManagerStopped
    \/ MainHealthStop
    \/ MainFlush

\* the steps of the goroutines of the servers
ServerStep ==
    \/ ListenAndServeOk
    \/ ListenAndServeErr
    \/ AcceptOk
    \/ AcceptErr
    \/ StopClose
    \/ StopReturn

\* what the world outside the process decides: the signal, and the clients
\* that connect and that hang up
WorldStep ==
    \/ MainSignal
    \/ ClientConnect
    \/ HandlerReturn

NextProc ==
    \/ MainStep
    \/ ServerStep
    \/ WorldStep

ProcSpec == InitProc /\ [][NextProc]_vars

\* Every goroutine of the process that can take a step takes it in the end.
\* Nothing is assumed of the clients.
ProcFairSpec ==
    /\ ProcSpec
    /\ WF_vars(MainStep)
    /\ WF_vars(ListenAndServeOk \/ ListenAndServeErr)
    /\ WF_vars(AcceptOk \/ AcceptErr)
    /\ WF_vars(StopClose)
    /\ WF_vars(StopReturn)

\* --------------------------------------------------------------- claims
\* flows that were admitted and have not released their semaphore unit
InFlight == {i \in FlowIds : flow[i].pc \notin {"none", "released"}}

\* flows whose generateFlow has not returned
Running == {i \in FlowIds : flow[i].pc \notin {"none", "returned", "released"}}

\* C1: in every reachable state the number of in-flight flows (admitted, unit
\* not yet released) is at most max_concurrent.
C1_InFlightAtMostMaxConcurrent ==
    Cardinality(InFlight) <= cfg.maxConcurrent

\* C1 witness: the ceiling is reached after an earlier flow has completed
C1_Witness ==
    /\ cfg.maxConcurrent = MaxConcurrent
    /\ Cardinality(InFlight) = cfg.maxConcurrent
    /\ \E i \in FlowIds : flow[i].pc = "released"

\* C2: with flow_count = K > 0 the admitted-flow counter never decreases, never
\* exceeds K, and once it is K no step changes it.
C2_CounterMonotoneAndBounded ==
    /\ [](cfg.flowCount > 0 => flowCounter <= cfg.flowCount)
    /\ [][flowCounter' >= flowCounter]_vars
    /\ [][(cfg.flowCount > 0 /\ flowCounter = cfg.flowCount)
            => flowCounter' = flowCounter]_vars

\* C2 witness: the limit is reached, a later tick was delivered, a flow still runs
C2_Witness ==
    /\ cfg.flowCount = MaxFlowCount
    /\ flowCounter = cfg.flowCount
    /\ ticksDelivered > flowCounter
    /\ Running # {}

\* C3 (as claimed): the tick that finds the limit reached leaves the context of
\* every admitted flow as it was.
C3_LimitTickCancelsNoFlow ==
    [][TickLimit => \A i \in FlowIds : flow'[i].ctxDone = flow[i].ctxDone]_vars

\* C4 (as claimed): once mainCtx is done, no step increments the flow counter
\* or acquires a semaphore unit.
C4_NoAdmissionOnceDone ==
    [][MainCtxDone => (flowCounter' = flowCounter /\ sem' <= sem)]_vars

C6_EventuallyStoppedWithKFlows ==
    <>(/\ mainPc = "stopped"
       /\ flowCounter = cfg.flowCount
       /\ tickerStopped
       /\ Running = {})

\* C6 witness: stopped with the largest limit admitted
C6_Witness ==
    /\ mainPc = "stopped"
    /\ cfg.flowCount = MaxFlowCount
    /\ flowCounter = MaxFlowCount

C8_HierarchicalCancellation ==
    /\ [](MainCtxDone => \A i \in FlowIds :
                             flow[i].pc \in CtxLive => flow[i].ctxDone)
    /\ [][\A i \in FlowIds : FlowExpire(i) =>
            /\ mainCtx' = mainCtx
            /\ mainPc' = mainPc
            /\ \A j \in FlowIds \ {i} : flow'[j] = flow[j]]_vars

\* C8 witness: one flow has expired on its own, a sibling was cancelled by mainCtx
C8_Witness ==
    /\ MainCtxDone
    /\ \E i, j \in FlowIds :
        /\ flow[i].pc \in CtxLive /\ flow[i].expired
        /\ flow[j].pc \in CtxLive /\ ~flow[j].expired /\ flow[j].ctxDone

\* C9 (as claimed): after mainCtx is done the process eventually stops,
\* whatever the peer does.
C9_CancelledRunStops ==
    MainCtxDone ~> (mainPc \in {"stopped", "exited"})

\* C10: the admitted count never exceeds the ticks delivered; no step admits
\* more than one flow; with the semaphore full no step admits a flow, and the
\* skipping tick leaves main in the loop.
C10_SkippedTicksAreDropped ==
    /\ [](flowCounter <= ticksDelivered)
    /\ [][flowCounter' <= flowCounter + 1]_vars
    /\ [][sem >= cfg.maxConcurrent => flowCounter' = flowCounter]_vars
    /\ [][TickSkip => (mainPc' = "loop" /\ flow' = flow /\ wg' = wg)]_vars

\* C10 witness: a tick was skipped and flows were admitted up to the ceiling
C10_Witness ==
    /\ cfg.flowCount = 0
    /\ ticksDelivered > flowCounter
    /\ flowCounter >= 2
    /\ sem = cfg.maxConcurrent

\* a step in which flow i fails: dial error, TCP write error, TCP read error
FlowFails(i) == DialFail(i) \/ TcpWriteFail(i) \/ TcpReadErr(i)

C12_DrawsAreMutuallyExclusive ==
    Cardinality({i \in FlowIds : InDraw(i)}) <= 1

\* the outputs flow i gets when the flows draw one after the other, in the
\* order of their admission
DrawsInAdmissionOrder(i) ==
    [k \in 1 .. Len(DrawNames) |-> (i - 1) * Len(DrawNames) + (k - 1)]

\* C13 (as claimed): in every run the i-th admitted flow draws the same
\* outputs of the sequence, whatever the interleaving of the flow goroutines.
C13_SameDrawsInEveryRun ==
    \A i \in FlowIds :
        \A k \in 1 .. Len(src.got[i]) :
            src.got[i][k] = DrawsInAdmissionOrder(i)[k]

\* C13 (amended): with max_concurrent = 1 the i-th admitted flow draws the
\* same outputs of the sequence in every run.
C13_SameDrawsWhenSerial ==
    cfg.maxConcurrent = 1 => C13_SameDrawsInEveryRun

\* C13 witness: with max_concurrent = 1 three flows have drawn port and duration
C13_Witness ==
    /\ cfg.maxConcurrent = 1
    /\ flowCounter = MaxFlows
    /\ Len(src.got[MaxFlows]) = Len(DrawNames)
    /\ flow[MaxFlows].pc = "start"

C15_EmptyPortsExitBeforeScheduler ==
    (mainPc # "startup" /\ Len(call.out) = 0) =>
        /\ mainPc = "exited"
        /\ exitCode = 1
        /\ ticksDelivered = 0
        /\ sem = 0
        /\ flowCounter = 0
        /\ \A i \in FlowIds : flow[i] = NoFlow

\* protocol tcp with a UDP port only: the client has exited with status 1
C15_Witness ==
    /\ mainPc = "exited"
    /\ exitCode = 1
    /\ cfg.protocol = "tcp"
    /\ cfg.tcpPorts = << >>
    /\ cfg.udpPorts = <<"8", "0">>
    /\ flowCounter = 0

\* C16: parsePorts returns, in input order and keeping duplicates, exactly
\* the comma-separated entries that after trimming whitespace are an integer
\* in 1..65535; every other entry is dropped, and the empty string gives the
\* empty list.
C16_ParsePortsKeepsValidEntries ==
    (call.fn = "parsePorts" /\ call.calls > 0) =>
        /\ call.out = PortsWritten(call.in.entries)
        /\ call.in.portsStr = << >> => call.out = << >>

\* "80,0,80" was parsed: the duplicate is kept, the entry between is dropped
C16_Witness ==
    /\ call.fn = "parsePorts"
    /\ call.calls > 0
    /\ call.in.portsStr = <<"8", "0", ",", "0", ",", "8", "0">>
    /\ call.out = <<80, 80>>

\* C17: getPayloadSize returns payload_size whenever payload_size > 0,
\* whatever the min/max range is, and returns 5 when payload_size,
\* min_payload_size and max_payload_size are all unset.
C17_FixedSizeOverridesAndDefault ==
    (call.fn = "getPayloadSize" /\ call.calls > 0) =>
        /\ call.in.payloadSize > 0 => call.out = call.in.payloadSize
        /\ (call.in.payloadSize = 0 /\ call.in.minPayloadSize = 0
                /\ call.in.maxPayloadSize = 0) => call.out = DefaultPayloadSize

\* a fixed size outside a configured range was returned
C17_Witness ==
    /\ call.fn = "getPayloadSize"
    /\ call.calls > 0
    /\ call.in.payloadSize > 0
    /\ call.in.minPayloadSize > call.in.payloadSize
    /\ call.in.maxPayloadSize > call.in.minPayloadSize
    /\ call.out = call.in.payloadSize

\* C18: whenever a payload range is configured (payload_size unset,
\* 0 < min_payload_size <= max_payload_size), getPayloadSize returns a size
\* within [min_payload_size, max_payload_size], for every draw of the source.
C18_RangeSizeWithinRange ==
    (/\ call.fn = "getPayloadSize"
     /\ call.calls > 0
     /\ call.in.payloadSize = 0
     /\ 0 < call.in.minPayloadSize
     /\ call.in.minPayloadSize <= call.in.maxPayloadSize) =>
        /\ call.in.minPayloadSize <= call.out
        /\ call.out <= call.in.maxPayloadSize

\* C19: in constant-flow mode the duration of a flow is exactly
\* max_concurrent / rate, whatever min_duration, max_duration and the draw
\* are; below min_duration it is passed on as it is.
C19_ConstantDuration ==
    (call.fn = "flowDuration" /\ call.calls > 0 /\ call.in.constantFlows) =>
        call.out.num * call.in.rate.num
            = call.in.maxConcurrent * call.in.rate.den * call.out.den

\* a constant duration below min_duration was computed
C19_Witness ==
    /\ call.fn = "flowDuration"
    /\ call.calls > 0
    /\ call.in.constantFlows
    /\ call.in.u.num > 0
    /\ ~RatLeq(call.in.minDuration, call.out)

\* C20: outside constant-flow mode the duration of a flow lies within
\* [min_duration, max_duration], and with min_duration = max_duration it is
\* exactly that value whatever the source returns.
C20_RandomDurationWithinRange ==
    (call.fn = "flowDuration" /\ call.calls > 0 /\ ~call.in.constantFlows) =>
        /\ RatLeq(call.in.minDuration, call.out)
        /\ RatLeq(call.out, call.in.maxDuration)
        /\ RatEq(call.in.minDuration, call.in.maxDuration)
               => RatEq(call.out, call.in.minDuration)

\* C21: in constant-flow mode (duration = max_concurrent / rate) a flow is
\* admitted on every tick: no tick is skipped because the semaphore is full.
C21_EveryTickAdmits ==
    [][ticksDelivered' # ticksDelivered => flowCounter' = flowCounter + 1]_vars

\* bytes of the echo that the flows in their read loop have not read yet
RECURSIVE EchoOutstanding(_)
EchoOutstanding(k) ==
    IF k = 0
    THEN 0
    ELSE EchoOutstanding(k - 1)
            + (IF flow[k].pc = "read" THEN cfg.payloadSize - flow[k].rcvd ELSE 0)

UdpCancelled(i) ==
    /\ flow[i].proto = "udp"
    /\ flow[i].pc \in {"udpLoop", "udpRead", "udpSleep"}
    /\ flow[i].ctxDone
    /\ ~flow[i].expired

\* C23: once the context of a UDP flow is cancelled, the flow sends no
\* further datagram and returns without waiting for its duration to elapse,
\* for every payload size and MTU.
C23_CancelledUdpFlowReturns ==
    /\ [][\A i \in FlowIds :
            (UdpCancelled(i) /\ flow[i].pc = "udpLoop") => flow'[i].pc # "udpRead"]_vars
    /\ \A i \in FlowIds :
            UdpCancelled(i) ~> (flow[i].pc \in {"returned", "released"} \/ flow[i].expired)

\* C24: in a TCP-only run with flow_count = K against a reachable echoing
\* peer every admitted flow counts one request as sent, once, and the final
\* report is made after all of them: it shows K requests sent.
C24_ReportShowsKRequests ==
    /\ metrics.requestsSent =
          Cardinality({i \in FlowIds :
                          flow[i].pc \in {"read", "hold", "returned", "released"}})
    /\ mainPc = "stopped" =>
          /\ metricsLogged = 1
          /\ metrics.requestsSent = cfg.flowCount

\* the report of a run of several flows was made
C24_Witness ==
    /\ mainPc = "stopped"
    /\ metricsLogged = 1
    /\ cfg.flowCount > 1
    /\ cfg.payloadSize > 1
    /\ metrics.requestsSent = cfg.flowCount

\* C25: the configuration loading of the client returns a config only if
\* rate > 0 and max_concurrent > 0 (and min_duration <= max_duration, the
\* protocol is tcp, udp or both, a port list is not empty and 0 < MSS < MTU).
C25_LoadedConfigIsValid ==
    (call.fn = "pkg/config.LoadClientConfig" /\ call.calls > 0 /\ ~call.out.err) =>
        LET c == call.out.config
        IN  /\ c.rate > 0
            /\ c.maxConcurrent > 0
            /\ c.minDuration <= c.maxDuration
            /\ c.protocol \in {"tcp", "udp", "both"}
            /\ (c.tcpPorts # << >> \/ c.udpPorts # << >>)
            /\ 0 < c.mss /\ c.mss < c.mtu

\* C26: Manager.Start on a manager that is already running returns the
\* "already running" error and changes nothing: no server's Start or Stop
\* is called, the servers are as they were, and running stays true.
C26_StartWhenRunningIsRejected ==
    [][(/\ manager'.calls # manager.calls
        /\ manager'.last.op = "Start"
        /\ manager.running)
       => /\ manager'.last.err = "already running"
          /\ manager'.last.startCalled = {}
          /\ manager'.last.stopCalled = {}
          /\ manager'.servers = manager.servers
          /\ manager'.canceled = manager.canceled
          /\ manager'.running]_vars

C26_Witness ==
    /\ manager.last.op = "Start"
    /\ manager.last.wasRunning
    /\ manager.last.err = "already running"
    /\ manager.running
    /\ Len(manager.servers) > 0

\* C27: when the Start of some server fails, Manager.Start returns an error,
\* the manager is not running, and Stop has been called on every server
\* whose Start had succeeded (and that server is down unless its Stop
\* failed).
C27_FailedStartRollsBack ==
    [][(/\ manager'.calls # manager.calls
        /\ manager'.last.op = "Start"
        /\ manager'.last.startFailed # {})
       => /\ manager'.last.err = "start"
          /\ ~manager'.running
          /\ \A i \in manager'.last.startCalled \ manager'.last.startFailed :
                /\ i \in manager'.last.stopCalled
                /\ i \notin manager'.last.stopFailed
                      => ~manager'.servers[i].up]_vars

C27_Witness ==
    /\ manager.last.op = "Start"
    /\ manager.last.startFailed # {}
    /\ manager.last.startCalled \ manager.last.startFailed # {}
    /\ manager.last.err = "start"
    /\ ~manager.running

\* C28: Manager.Stop on a manager that is not running returns nil and
\* changes nothing; on a running manager it calls Stop on every managed
\* server, whether or not other Stop calls fail, sets running to false, and
\* returns an error exactly when the Stop of at least one server failed.
C28_StopStopsEveryServer ==
    [][(/\ manager'.calls # manager.calls
        /\ manager'.last.op = "Stop")
       => IF ~manager.running
          THEN /\ manager'.last.err = "nil"
               /\ manager'.last.stopCalled = {}
               /\ manager'.servers = manager.servers
               /\ manager'.canceled = manager.canceled
               /\ ~manager'.running
          ELSE /\ manager'.last.stopCalled = DOMAIN manager.servers
               /\ ~manager'.running
               /\ (manager'.last.err # "nil")
                     <=> (manager'.last.stopFailed # {})]_vars

C28_Witness ==
    /\ manager.last.op = "Stop"
    /\ manager.last.wasRunning
    /\ manager.last.stopFailed # {}
    /\ manager.last.stopCalled \ manager.last.stopFailed # {}
    /\ manager.last.err = "stop"
    /\ ~manager.running

\* C29: once TCPServer.Stop has returned, the listener is not open, the
\* accept loop has exited and no handler goroutine is running; from then on
\* no connection is accepted and none is queued on the listener.
C29_StoppedServerIsQuiet ==
    /\ [](tcpServer.stopPc = "returned"
            => /\ tcpServer.listener # "open"
               /\ tcpServer.acceptPc # "accept"
               /\ tcpServer.handlers = 0)
    /\ [][tcpServer.stopPc = "returned"
            => /\ tcpServer'.accepted = tcpServer.accepted
               /\ tcpServer'.backlog = tcpServer.backlog]_vars

C29_Witness ==
    /\ tcpServer.stopPc = "returned"
    /\ tcpServer.started = "ok"
    /\ tcpServer.listener = "closed"
    /\ tcpServer.acceptPc = "exited"
    /\ tcpServer.accepted > 0

\* C30: the TCP handler writes back the bytes it read, in the order it read
\* them: what it has written is always the head of what it has read, and all
\* of it whenever the handler is about to read again or has returned without
\* a failed write; then bytes sent equals bytes received.  After a read that
\* failed or met EOF the handler has returned and the connection is closed.
C30_HandlerEchoesWhatItRead ==
    conn.pc # "none"
       => /\ Len(conn.echoed) <= Len(conn.read)
          /\ conn.echoed = SubSeq(conn.read, 1, Len(conn.echoed))
          /\ (conn.pc \in {"read", "closed"} /\ ~conn.writeFailed)
                => /\ conn.echoed = conn.read
                   /\ conn.bytesSent = conn.bytesReceived
                   /\ conn.bytesSent = Len(conn.echoed)
          /\ conn.lastRead \in {"eof", "err"} => conn.pc = "closed"

C30_Witness ==
    /\ conn.pc = "closed"
    /\ conn.lastRead = "eof"
    /\ ~conn.writeFailed
    /\ Len(conn.read) = MaxMsgLen
    /\ conn.read[1] # conn.read[2]
    /\ conn.echoed = conn.read
    /\ conn.n < Len(conn.buf)
    /\ conn.bytesSent = MaxMsgLen

\* C31: every answer to GET /health is 200 "OK" when the healthy flag is true
\* and 503 "Unhealthy" when it is false, and every answer to GET /ready is
\* 200 "Ready" when the ready flag is true and 503 "Not Ready" when it is
\* false.
C31_EndpointsAnswerTheFlags ==
    /\ health.last.op = "GET /health"
          => /\ health.last.healthy
                   => health.last.code = 200 /\ health.last.body = "OK"
             /\ ~health.last.healthy
                   => health.last.code = 503 /\ health.last.body = "Unhealthy"
    /\ health.last.op = "GET /ready"
          => /\ health.last.ready
                   => health.last.code = 200 /\ health.last.body = "Ready"
             /\ ~health.last.ready
                   => health.last.code = 503 /\ health.last.body = "Not Ready"

C31_Witness ==
    /\ health.last.op = "GET /ready"
    /\ health.last.code = 503
    /\ health.last.body = "Not Ready"
    /\ health.healthy
    /\ ~health.ready

\* C32: a new Checker has both flags false; Start sets healthy and leaves
\* ready as it was; Stop after Start clears both flags; Stop without a Start
\* before it returns nil and changes no flag.
C32_CheckerLifecycle ==
    /\ [](health.calls = 0 => ~health.ready /\ ~health.healthy)
    /\ [][health'.calls # health.calls
            => /\ health'.last.op = "Start"
                  => health'.healthy /\ health'.ready = health.ready
               /\ (health'.last.op = "Stop" /\ health.server # "nil")
                  => ~health'.healthy /\ ~health'.ready
               /\ (health'.last.op = "Stop" /\ health.server = "nil")
                  => /\ health'.last.err = "nil"
                     /\ health'.healthy = health.healthy
                     /\ health'.ready = health.ready]_vars

C32_Witness ==
    /\ health.last.op = "Stop"
    /\ health.server # "nil"
    /\ health.last.ready
    /\ health.last.healthy
    /\ ~health.ready
    /\ ~health.healthy

\* C33: once the concurrent calls have returned, the total and the counter
\* of the key hold the sum of the calls made for them, whether or not the
\* entry of the key existed before the calls started.
C33_NoUpdateLost ==
    (/\ collector.pc = "run"
     /\ \A g \in Workers : collector.w[g].pc \in {"idle", "done"})
       => /\ collector.total = collector.sum
          /\ Reported = collector.sum

\* the admitted flows whose generateFlow has not returned
Unreturned == {i \in 1 .. flowCounter : flow[i].pc \notin {"returned", "released"}}

C35_OneReleasePerFlow ==
    /\ [](sem = Cardinality(InFlight))
    /\ [](\A i \in FlowIds : flow[i].pc = "returned" => sem >= 1)
    /\ [][\A i \in FlowIds :
            /\ (flow[i].pc \in CtxLive /\ flow'[i].pc \notin CtxLive)
                  => flow'[i].pc = "returned"
            /\ (flow[i].pc = "returned" /\ flow'[i].pc # "returned")
                  => flow'[i].pc = "released" /\ sem' = sem - 1
            /\ flow[i].pc = "released" => flow'[i].pc = "released"]_vars

C35_Witness ==
    /\ Alive
    /\ \E i \in FlowIds : flow[i].pc = "released"
    /\ \E i \in FlowIds : flow[i].pc = "returned"
    /\ \E i \in FlowIds : flow[i].pc \in CtxLive
    /\ sem = 2

\* C36: a TCP flow that has connected and written its payload has its
\* connection open and its semaphore unit held; it leaves that position only
\* when its flow context is done, by returning from generateFlow with the
\* connection closed and the unit still held; and no flow that has returned
\* has left a connection open, whatever way it returned.
C36_TcpFlowHoldsUntilContextDone ==
    /\ [](\A i \in FlowIds :
            /\ flow[i].pc \in {"write", "read", "hold"}
                  => sock[i] = "open" /\ i \in InFlight
            /\ flow[i].pc \in {"returned", "released"} => sock[i] # "open")
    /\ [](sem = Cardinality(InFlight))
    /\ [][\A i \in FlowIds :
            (flow[i].pc \in {"read", "hold"} /\ flow'[i].pc \notin {"read", "hold"})
               => /\ flow[i].ctxDone
                  /\ flow'[i].pc = "returned"
                  /\ sock'[i] = "closed"
                  /\ sem' = sem]_vars

C36_Witness ==
    /\ Alive
    /\ \E i \in FlowIds : flow[i].pc = "returned" /\ sock[i] = "closed"
    /\ \E i \in FlowIds : /\ flow[i].pc = "hold" /\ sock[i] = "open"
                           /\ flow[i].ctxDone /\ flow[i].expired

\* C38: Manager.Wait returns only once the context of the manager is
\* cancelled; the context is cancelled by a Stop on a running manager and by
\* nothing else: a Stop on a manager that is not running and a Start, failed
\* or not, leave the context as it was and a blocked Wait blocked.
C38_WaitReturnsOnStopOfRunningManager ==
    /\ [](manager.waiter = "returned" => manager.canceled)
    /\ [][manager'.calls # manager.calls
            => IF manager'.last.op = "Stop" /\ manager.running
               THEN manager'.canceled
               ELSE /\ manager'.canceled = manager.canceled
                    /\ manager'.waiter = manager.waiter]_vars
    /\ [][manager'.calls = manager.calls
            => manager'.canceled = manager.canceled]_vars

C38_Witness ==
    /\ manager.waiter = "returned"
    /\ manager.canceled
    /\ manager.calls = MaxManagerCalls
    /\ manager.last.op = "Stop"
    /\ manager.last.wasRunning

\* C37: in the echo server process ready implies that the Manager is running
\* and its server is listening and not being stopped; ready is set only with
\* Manager.Start having succeeded; on shutdown the Stop of a server begins
\* only with ready cleared, the health server is shut down only after the
\* Manager has stopped its servers, and the metrics are flushed after all of
\* that, as the last thing.
C37_ReadyImpliesRunningServers ==
    /\ [](health.ready => /\ manager.running
                          /\ tcpServer.listener = "open"
                          /\ tcpServer.stopPc = "idle")
    /\ [][(~health.ready /\ health'.ready)
            => manager.running /\ manager.last.op = "Start"]_vars
    /\ [][(manager.running /\ tcpServer.stopPc = "idle"
                           /\ tcpServer'.stopPc # "idle")
            => ~health.ready]_vars
    /\ [][(health.http # "shutdown" /\ health'.http = "shutdown")
            => ~manager.running /\ tcpServer.stopPc = "returned"]_vars
    /\ [][(~proc.flushed /\ proc'.flushed)
            => health.http = "shutdown" /\ ~manager.running]_vars
    /\ [][proc.flushed
            => health' = health /\ manager' = manager
                                /\ tcpServer' = tcpServer]_vars

C37_Witness ==
    /\ proc.pc = "complete"
    /\ proc.flushed
    /\ tcpServer.accepted > 0
    /\ tcpServer.stopPc = "returned"
    /\ health.http = "shutdown"
    /\ ~manager.running

\* C39: after the termination signal the process reaches "shutdown
\* complete", whatever the clients do.
C39_ShutdownTerminates ==
    (proc.pc = "setNotReady") ~> (proc.pc = "complete")

====
